---- MODULE Spec2Model ----
(***************************************************************************)
(* A model of needs-config-writer: the pipeline of write_needscfg_file     *)
(* (builder.py) -- collect the needs_* attributes, make them TOML-safe,    *)
(* merge TOML files, sort for reproducibility, render and write with the   *)
(* warn/overwrite policy -- together with the helpers of utils.py.         *)
(*                                                                         *)
(* Values are tagged one-field records:                                    *)
(*   [none |-> 0]        None                                              *)
(*   [bool |-> b]        bool         [int |-> n]   int                    *)
(*   [str  |-> toks]     str, as the sequence of its tokens                *)
(*   [path |-> toks]     pathlib.Path, as the tokens of str(path)          *)
(*   [obj  |-> name]     an object of an unsupported type `name`           *)
(*   [dict |-> items]    dict, the sequence of its <<key, value>> items in *)
(*                       insertion order                                   *)
(*   [list |-> elems]    list      [tuple |-> elems]   tuple               *)
(*   [set  |-> members]  set                                               *)
(* A string is the sequence of its tokens: "/a/f" is <<"/","a","/","f">>,  *)
(* a plain word is one token.  Dictionary keys are single words.           *)
(***************************************************************************)
EXTENDS Integers, Sequences, FiniteSets, TLC

VARIABLES
    file,                 \* content of the file at outpath, or Absent
    dirs,                 \* the existing directories among outpath's ancestors
    writable,             \* whether the file system accepts mkdir / write_text
    config,               \* the Sphinx config of the current invocation
    pc,                   \* position inside write_needscfg_file
    idx,                  \* index of the next entry of needscfg_merge_toml_files
    need_attributes,      \* builder.py need_attributes (a dict value's items)
    additional_root_data, \* builder.py additional_root_data (items)
    final_toml_data,      \* builder.py final_toml_data (items), once sorted
    new_content,          \* builder.py new_content, once rendered
    log,                  \* events and file operations of this invocation, in order
    existed,              \* file as it was when this invocation started
    existed_dirs,         \* dirs as they were when this invocation started
    prev_content,         \* new_content of the previous invocation
    rerun,                \* this invocation repeats the previous one's config
    raised_in,            \* the stage whose exception ended the invocation
    runs,                 \* invocations started so far
    ox, oy, applied       \* results of the pure-function specifications

vars == <<file, dirs, writable, config, pc, idx, need_attributes,
          additional_root_data, final_toml_data, new_content, log, existed,
          existed_dirs, prev_content, rerun, raised_in, runs, ox, oy, applied>>

(***************************************************************************)
(* Bounds of the model.                                                    *)
(***************************************************************************)
MaxRuns == 2
MaxLen == 2
MaxSources == 2
MaxDiffLines == 60

(***************************************************************************)
(* Value constructors and tests (Python's isinstance).                     *)
(***************************************************************************)
None == [none |-> 0]
Bool(b) == [bool |-> b]
IntV(n) == [int |-> n]
Str(toks) == [str |-> toks]
Word(w) == [str |-> <<w>>]
PathObj(toks) == [path |-> toks]
Obj(name) == [obj |-> name]
Dict(items) == [dict |-> items]
List(elems) == [list |-> elems]
Tuple(elems) == [tuple |-> elems]
SetOf(members) == [set |-> members]

IsNone(v) == DOMAIN v = {"none"}
IsBool(v) == DOMAIN v = {"bool"}
IsInt(v) == DOMAIN v = {"int"}
IsStr(v) == DOMAIN v = {"str"}
IsPath(v) == DOMAIN v = {"path"}
IsObj(v) == DOMAIN v = {"obj"}
IsDict(v) == DOMAIN v = {"dict"}
IsList(v) == DOMAIN v = {"list"}
IsTuple(v) == DOMAIN v = {"tuple"}
IsSet(v) == DOMAIN v = {"set"}

\* type(x).__name__
TypeName(v) == CHOOSE t \in DOMAIN v : TRUE

\* The sequence s as a set, and the index range of a sequence.
Range(s) == {s[i] : i \in 1..Len(s)}

(***************************************************************************)
(* Python's order on str: lexicographic over the tokens, the tokens in     *)
(* ASCII order ('.' < '/' < digits < upper case < '_' < lower case).       *)
(***************************************************************************)
TokOrder ==
    <<"", ".", "..", "/", "0", "1", "2", "X", "_", "a", "author", "b",
      "bool", "build_json", "c", "d", "description", "dict",
      "external_needs", "extra_links", "extra_options", "f",
      "flow_link_types", "from_toml", "functions", "g", "id_length",
      "id_prefix", "id_regex", "int", "json:", "json_exclude_fields",
      "json_path", "list", "m", "name", "needs", "option", "out", "p",
      "project", "q", "render_context", "schema_debug_path", "sib",
      "statuses", "str", "tags", "title", "tuple", "types", "ubproject.toml",
      "variant_options", "x", "y", "z">>

TokRank(t) == CHOOSE i \in 1..Len(TokOrder) : TokOrder[i] = t

RECURSIVE StrCmp(_, _)
StrCmp(a, b) ==
    IF a = <<>> /\ b = <<>> THEN "eq"
    ELSE IF a = <<>> THEN "lt"
    ELSE IF b = <<>> THEN "gt"
    ELSE IF Head(a) = Head(b) THEN StrCmp(Tail(a), Tail(b))
    ELSE IF TokRank(Head(a)) < TokRank(Head(b)) THEN "lt" ELSE "gt"

\* Dictionary keys and type names are words; their order is the same one.
KeyLess(a, b) == StrCmp(<<a>>, <<b>>) = "lt"

(***************************************************************************)
(* Python's == and < on values.  Cmp gives "lt", "eq", "gt", or "err" when *)
(* < raises TypeError (str against int, dict against dict, ...).           *)
(***************************************************************************)
IsNum(v) == IsInt(v) \/ IsBool(v)
Num(v) == IF IsInt(v) THEN v.int ELSE IF v.bool THEN 1 ELSE 0

PyEq(a, b) == IF IsNum(a) /\ IsNum(b) THEN Num(a) = Num(b) ELSE a = b

RECURSIVE SeqCmp(_, _)
RECURSIVE Cmp(_, _)
Cmp(a, b) ==
    IF IsNum(a) /\ IsNum(b)
    THEN IF Num(a) < Num(b) THEN "lt" ELSE IF Num(a) = Num(b) THEN "eq" ELSE "gt"
    ELSE IF IsStr(a) /\ IsStr(b) THEN StrCmp(a.str, b.str)
    ELSE IF IsList(a) /\ IsList(b) THEN SeqCmp(a.list, b.list)
    ELSE IF IsTuple(a) /\ IsTuple(b) THEN SeqCmp(a.tuple, b.tuple)
    ELSE "err"

\* Sequences compare by their first differing element, then by length.
SeqCmp(s, t) ==
    IF s = <<>> /\ t = <<>> THEN "eq"
    ELSE IF s = <<>> THEN "lt"
    ELSE IF t = <<>> THEN "gt"
    ELSE IF PyEq(Head(s), Head(t)) THEN SeqCmp(Tail(s), Tail(t))
    ELSE Cmp(Head(s), Head(t))

(***************************************************************************)
(* sorted(items, key=...): a stable ascending sort.  A sort entry is       *)
(* [k |-> key, e |-> element].  KeysComparable says whether every          *)
(* comparison the sort may make succeeds; the sort raises TypeError        *)
(* exactly when two of its keys cannot be compared, since it has to relate *)
(* every element to the others.                                            *)
(***************************************************************************)
\* The order a sort uses: "value" compares the keys with <, "typed" compares
\* key=lambda x: (type(x).__name__, x), the type names first, then the values.
KeyBefore(mode, a, b) ==
    IF mode = "typed" /\ TypeName(a) # TypeName(b)
    THEN KeyLess(TypeName(a), TypeName(b))
    ELSE Cmp(a, b) = "lt"

RECURSIVE InsertEntry(_, _, _)
InsertEntry(sorted, entry, mode) ==
    IF sorted = <<>> THEN <<entry>>
    ELSE IF KeyBefore(mode, entry.k, sorted[Len(sorted)].k)
         THEN Append(InsertEntry(SubSeq(sorted, 1, Len(sorted) - 1), entry, mode),
                     sorted[Len(sorted)])
         ELSE Append(sorted, entry)

RECURSIVE SortEntries(_, _)
SortEntries(entries, mode) ==
    IF entries = <<>> THEN <<>>
    ELSE InsertEntry(SortEntries(SubSeq(entries, 1, Len(entries) - 1), mode),
                     entries[Len(entries)], mode)

Elems(entries) == [i \in 1..Len(entries) |-> entries[i].e]

ValuesComparable(s) ==
    \A i, j \in 1..Len(s) : i # j => Cmp(s[i], s[j]) # "err"

\* Tuples (type name, x) that are equal are never ordered by <.
TypedComparable(s) ==
    \A i, j \in 1..Len(s) :
        (i # j /\ TypeName(s[i]) = TypeName(s[j]) /\ s[i] # s[j])
            => Cmp(s[i], s[j]) # "err"

(***************************************************************************)
(* utils.py: paths.  A path is the token sequence of its text; its parts   *)
(* (pathlib's Path.parts) are "/" for the root, then the segments.         *)
(***************************************************************************)
is_absolute(toks) == toks # <<>> /\ Head(toks) = "/"

RECURSIVE Segments(_)
Segments(toks) ==
    IF toks = <<>> THEN <<>>
    ELSE IF Head(toks) = "/" THEN Segments(Tail(toks))
    ELSE <<Head(toks)>> \o Segments(Tail(toks))

\* Path.resolve() on an absolute path of a file system without symbolic
\* links: every ".." segment removes the segment before it.
RECURSIVE Collapse(_, _)
Collapse(done, segs) ==
    IF segs = <<>> THEN done
    ELSE IF Head(segs) = ".."
         THEN Collapse(IF done = <<>> THEN <<>> ELSE SubSeq(done, 1, Len(done) - 1),
                       Tail(segs))
         ELSE Collapse(Append(done, Head(segs)), Tail(segs))

resolve(toks) == <<"/">> \o Collapse(<<>>, Segments(toks))

\* Path(*parts).as_posix(): the parts joined by "/"; the empty path is ".".
RECURSIVE JoinSegments(_)
JoinSegments(segs) ==
    IF segs = <<>> THEN <<>>
    ELSE IF Len(segs) = 1 THEN <<Head(segs)>>
    ELSE <<Head(segs), "/">> \o JoinSegments(Tail(segs))

as_posix(parts) ==
    IF parts = <<>> THEN <<".">>
    ELSE IF Head(parts) = "/" THEN <<"/">> \o JoinSegments(Tail(parts))
    ELSE JoinSegments(parts)

IsPrefix(s, t) == Len(s) <= Len(t) /\ SubSeq(t, 1, Len(s)) = s

\* The loop over zip(abs_parts, base_parts): the longest common prefix.
RECURSIVE CommonParts(_, _)
CommonParts(a, b) ==
    IF a = <<>> \/ b = <<>> \/ Head(a) # Head(b) THEN <<>>
    ELSE <<Head(a)>> \o CommonParts(Tail(a), Tail(b))

Dots(n) == [i \in 1..n |-> ".."]

\* Path.parent
parent(parts) == IF Len(parts) <= 1 THEN parts ELSE SubSeq(parts, 1, Len(parts) - 1)

(***************************************************************************)
(* utils.py relativize_path(absolute_path, base_path).  Both arguments are *)
(* parts; base_is_file is base_path.is_file().  This is the call on a file *)
(* system without symbolic links, where the probing loop finds no          *)
(* candidate and best_relative_path stays None: the standard text.         *)
(* relativize_path_links below adds the links.                             *)
(***************************************************************************)
relativize_path(absolute_path, base_path, base_is_file) ==
    LET resolved_absolute_path == resolve(as_posix(absolute_path))
        resolved_base == resolve(as_posix(base_path))
        base == IF base_is_file THEN parent(resolved_base) ELSE resolved_base
        common_parts == CommonParts(resolved_absolute_path, base)
        levels_up == Len(base) - Len(common_parts)
        path_down_parts == SubSeq(resolved_absolute_path, Len(common_parts) + 1,
                                  Len(resolved_absolute_path))
    IN  IF IsPrefix(base, resolved_absolute_path)
        THEN as_posix(SubSeq(resolved_absolute_path, Len(base) + 1,
                             Len(resolved_absolute_path)))
        ELSE IF common_parts = <<>> THEN as_posix(resolved_absolute_path)
        ELSE as_posix(Dots(levels_up) \o path_down_parts)

\* The parts of a path given by its text.
PartsOf(toks) == IF is_absolute(toks) THEN <<"/">> \o Segments(toks) ELSE Segments(toks)

(***************************************************************************)
(* utils.py matches_path_pattern(config_path, pattern).  The pattern token *)
(* "[*]" becomes the regular expression \[\d+\]; everything else is        *)
(* escaped and matches itself; re.fullmatch matches the whole path.        *)
(***************************************************************************)
DigitToks == {"0", "1", "2", "3", "10", "123"}

IndexTok(i) == ToString(i)

RECURSIVE FullMatch(_, _)
FullMatch(pattern, text) ==
    IF pattern = <<>> THEN text = <<>>
    ELSE IF Head(pattern) = "[*]"
         THEN /\ Len(text) >= 3
              /\ text[1] = "[" /\ text[2] \in DigitToks /\ text[3] = "]"
              /\ FullMatch(Tail(pattern), SubSeq(text, 4, Len(text)))
         ELSE /\ text # <<>>
              /\ Head(text) = Head(pattern)
              /\ FullMatch(Tail(pattern), Tail(text))

\* Mutant of matches_path_pattern: re.match, which accepts a matching prefix.
matches_path_pattern_Prefix(config_path, pattern) ==
    LET converted ==
            IF Len(config_path) >= 2 /\ config_path[1] = "needs" /\ config_path[2] = "."
            THEN <<"needs_">> \o SubSeq(config_path, 3, Len(config_path))
            ELSE config_path
    IN  \E n \in 0..Len(converted) : FullMatch(pattern, SubSeq(converted, 1, n))

matches_path_pattern(config_path, pattern) ==
    LET converted ==
            IF Len(config_path) >= 2 /\ config_path[1] = "needs" /\ config_path[2] = "."
            THEN <<"needs_">> \o SubSeq(config_path, 3, Len(config_path))
            ELSE config_path
    IN  FullMatch(pattern, converted)

(***************************************************************************)
(* Events.  An event is [level, subtype, at]: the logger call's level, its *)
(* subtype and the config path or file it names.  The same log keeps the   *)
(* file operations of the Writer, with level "io".                         *)
(***************************************************************************)
Warning(subtype, at) == [level |-> "warning", subtype |-> subtype, at |-> at]
Info(subtype, at) == [level |-> "info", subtype |-> subtype, at |-> at]
Io(op) == [level |-> "io", subtype |-> op, at |-> <<>>]

RECURSIVE SetToSeq(_)
SetToSeq(S) ==
    IF S = {} THEN <<>>
    ELSE LET x == CHOOSE y \in S : TRUE IN <<x>> \o SetToSeq(S \ {x})

(***************************************************************************)
(* builder.py get_safe_config, lines 63-102: the scan of                   *)
(* needscfg_relative_path_fields for the first entry matching `path`.  An  *)
(* entry is [kind, field, prefix, suffix]: kind "str" (a pattern), "dict"  *)
(* (field, prefix, suffix; <<>> for a missing or empty one) or "other".    *)
(***************************************************************************)
RECURSIVE ScanRules(_, _)
ScanRules(items, path) ==
    IF items = <<>>
    THEN [match |-> FALSE, prefix |-> <<>>, suffix |-> <<>>, ev |-> <<>>]
    ELSE LET item == Head(items)
             rest == ScanRules(Tail(items), path)
         IN  IF item.kind = "other" \/ (item.kind = "dict" /\ item.field = <<>>)
             THEN [rest EXCEPT !.ev = <<Warning("config_error", path)>> \o @]
             ELSE IF matches_path_pattern(path, item.field)
             THEN [match |-> TRUE,
                   prefix |-> IF item.kind = "dict" THEN item.prefix ELSE <<>>,
                   suffix |-> IF item.kind = "dict" THEN item.suffix ELSE <<>>,
                   ev |-> <<Info("path_matching", path)>>]
             ELSE rest

IsSuffix(s, t) == Len(s) <= Len(t) /\ SubSeq(t, Len(t) - Len(s) + 1, Len(t)) = s

\* builder.py lines 129-137: the text between the rule's prefix and suffix.
StripAffixes(text, prefix, suffix) ==
    LET a == IF prefix # <<>> /\ IsPrefix(prefix, text)
             THEN SubSeq(text, Len(prefix) + 1, Len(text)) ELSE text
    IN  IF suffix # <<>> /\ IsSuffix(suffix, a)
        THEN SubSeq(a, 1, Len(a) - Len(suffix)) ELSE a

(***************************************************************************)
(* builder.py get_safe_config(obj, path, outpath).  cx is what the closure *)
(* reads: [rules |-> config.needscfg_relative_path_fields, outpath |-> the *)
(* parts of outpath, is_file |-> outpath.is_file()].  The result is        *)
(* [v |-> the safe value or None, ev |-> the events emitted, in order].    *)
(***************************************************************************)
\* Mutant of Dropped: a None result stays in its container.
Dropped_Never(safe_value) == FALSE

\* Lines 180 and 190: "if safe_value is not None" fails.
Dropped(safe_value) == IsNone(safe_value)

\* Mutant of UnsupportedEvents: the value is filtered out without a warning.
UnsupportedEvents_Silent(path) == <<>>

\* Lines 199-205: the warning for a value of an unsupported type.
UnsupportedEvents(path) == <<Warning("unsupported_type", path)>>

\* Mutant of RelativizesPath: every absolute path is relativized.
RelativizesPath_IgnoresRule(should_relativize, toks) == is_absolute(toks)

\* Line 108: should_relativize and path_obj.is_absolute() and outpath
RelativizesPath(should_relativize, toks) == should_relativize /\ is_absolute(toks)

RECURSIVE get_safe_config(_, _, _)
RECURSIVE SafeItems(_, _, _)
RECURSIVE SafeElems(_, _, _, _)

\* The loop over obj.items() of a dict: entries with a None result are dropped.
SafeItems(items, path, cx) ==
    IF items = <<>> THEN [v |-> <<>>, ev |-> <<>>]
    ELSE LET key == Head(items)[1]
             item_path == IF path # <<>> THEN path \o <<".", key>> ELSE <<key>>
             one == get_safe_config(Head(items)[2], item_path, cx)
             rest == SafeItems(Tail(items), path, cx)
         IN  [v |-> (IF Dropped(one.v) THEN <<>> ELSE <<(<<key, one.v>>)>>) \o rest.v,
              ev |-> one.ev \o rest.ev]

\* The loop over enumerate(obj) of a list, tuple or set, from index i on.
SafeElems(elems, i, path, cx) ==
    IF elems = <<>> THEN [v |-> <<>>, ev |-> <<>>]
    ELSE LET item_path == path \o <<"[", IndexTok(i), "]">>
             one == get_safe_config(Head(elems), item_path, cx)
             rest == SafeElems(Tail(elems), i + 1, path, cx)
         IN  [v |-> (IF Dropped(one.v) THEN <<>> ELSE <<one.v>>) \o rest.v,
              ev |-> one.ev \o rest.ev]

get_safe_config(obj, path, cx) ==
    IF IsNone(obj) THEN [v |-> None, ev |-> <<>>]
    ELSE
    LET scan == ScanRules(cx.rules, path)
        should_relativize == scan.match
    IN  IF IsPath(obj)
        THEN IF RelativizesPath(should_relativize, obj.path)
             THEN [v |-> Str(relativize_path(PartsOf(obj.path), cx.outpath, cx.is_file)),
                   ev |-> scan.ev \o <<Info("path_relativization", path)>>]
             ELSE [v |-> Str(obj.path),
                   ev |-> scan.ev \o <<Warning("path_conversion", path)>>]
        ELSE IF IsStr(obj) \/ IsInt(obj) \/ IsBool(obj)
        THEN LET path_to_check ==
                     IF IsStr(obj) THEN StripAffixes(obj.str, scan.prefix, scan.suffix)
                     ELSE <<>>
             IN  IF IsStr(obj) /\ should_relativize /\ is_absolute(path_to_check)
                 THEN [v |-> Str(scan.prefix
                                 \o relativize_path(PartsOf(path_to_check), cx.outpath,
                                                    cx.is_file)
                                 \o scan.suffix),
                       ev |-> scan.ev \o <<Info("path_relativization", path)>>]
                 ELSE [v |-> obj, ev |-> scan.ev]
        ELSE IF IsDict(obj)
        THEN LET r == SafeItems(obj.dict, path, cx)
             IN  [v |-> Dict(r.v), ev |-> scan.ev \o r.ev]
        ELSE IF IsList(obj)
        THEN LET r == SafeElems(obj.list, 0, path, cx)
             IN  [v |-> List(r.v), ev |-> scan.ev \o r.ev]
        ELSE IF IsTuple(obj)
        THEN LET r == SafeElems(obj.tuple, 0, path, cx)
             IN  [v |-> Tuple(r.v), ev |-> scan.ev \o r.ev]
        ELSE IF IsSet(obj)
        THEN LET r == SafeElems(SetToSeq(obj.set), 0, path, cx)
             IN  [v |-> SetOf(Range(r.v)), ev |-> scan.ev \o r.ev]
        ELSE [v |-> None, ev |-> scan.ev \o UnsupportedEvents(path)]

(***************************************************************************)
(* Python dict operations on a sequence of <<key, value>> items.           *)
(***************************************************************************)
Keys(items) == {items[i][1] : i \in 1..Len(items)}

DictHas(items, k) == k \in Keys(items)

DictGet(items, k) == items[CHOOSE i \in 1..Len(items) : items[i][1] = k][2]

\* d[k] = v: an existing key keeps its place, a new key goes last.
DictSet(items, k, v) ==
    IF DictHas(items, k)
    THEN [i \in 1..Len(items) |-> IF items[i][1] = k THEN <<k, v>> ELSE items[i]]
    ELSE Append(items, <<k, v>>)

\* dict(sorted(d.items())): the items in ascending key order (keys are unique,
\* so the values are never compared).
RECURSIVE SortItems(_)
SortItems(items) ==
    IF items = <<>> THEN <<>>
    ELSE LET least == CHOOSE i \in 1..Len(items) :
                          \A j \in 1..Len(items) : ~KeyLess(items[j][1], items[i][1])
         IN  <<items[least]>>
             \o SortItems([j \in 1..(Len(items) - 1) |->
                              IF j < least THEN items[j] ELSE items[j + 1]])

(***************************************************************************)
(* builder.py sort_for_reproducibility(obj, path).  The result is the      *)
(* sorted value, or Raised when a sorted() call raises TypeError and       *)
(* nothing catches it.  path is <<>> for "", <<k>> for a top-level key.    *)
(***************************************************************************)
Raised == [raised |-> "TypeError"]
IsRaised(v) == DOMAIN v = {"raised"}
AnyRaised(s) == \E i \in 1..Len(s) : IsRaised(s[i])

NoKey == "<None>"

list_sort_rules ==
    [f \in {"external_needs", "extra_links", "flow_link_types", "json_exclude_fields",
            "statuses", "tags", "types", "variant_options"} |->
        CASE f = "external_needs" -> "id_prefix"
          [] f = "extra_links" -> "option"
          [] f = "flow_link_types" -> NoKey
          [] f = "json_exclude_fields" -> NoKey
          [] f = "statuses" -> "name"
          [] f = "tags" -> "name"
          [] f = "types" -> "title"
          [] f = "variant_options" -> NoKey]

\* Mutant of SortedByKey: the list is returned as it came.
SortedByKey_Unsorted(items, sort_key) == List(items)

\* sorted(items, key=lambda x: x[sort_key])
SortedByKey(items, sort_key) ==
    LET entries == [i \in 1..Len(items) |->
                       [k |-> DictGet(items[i].dict, sort_key), e |-> items[i]]]
    IN  IF ValuesComparable([i \in 1..Len(items) |-> entries[i].k])
        THEN List(Elems(SortEntries(entries, "value")))
        ELSE Raised

\* sorted(items): by the values themselves
SortedValues(items) ==
    IF ValuesComparable(items)
    THEN List(Elems(SortEntries([i \in 1..Len(items) |-> [k |-> items[i], e |-> items[i]]],
                                "value")))
    ELSE Raised

\* Mutant of SortedTyped: sorted by the values alone, the TypeError not caught.
SortedTyped_ByValue(items) == SortedValues(items)

\* sorted(items, key=lambda x: (type(x).__name__, x)) inside try/except TypeError
SortedTyped(items) ==
    IF TypedComparable(items)
    THEN List(Elems(SortEntries([i \in 1..Len(items) |-> [k |-> items[i], e |-> items[i]]],
                                "typed")))
    ELSE List(items)

AllDictsWith(items, key) ==
    \A i \in 1..Len(items) : IsDict(items[i]) /\ DictHas(items[i].dict, key)

\* Mutant of SortList: no rule and no special case, the items as they came.
SortList_Unsorted(processed_items, path) == List(processed_items)

\* builder.py lines 250-286: the order of a list's processed items.
SortList(processed_items, path) ==
    IF path = <<"extra_options">>
    THEN IF processed_items # <<>> /\ \A i \in 1..Len(processed_items) : IsDict(processed_items[i])
         THEN IF AllDictsWith(processed_items, "name")
              THEN SortedByKey(processed_items, "name")
              ELSE List(processed_items)
         ELSE IF processed_items # <<>> /\ \A i \in 1..Len(processed_items) : IsStr(processed_items[i])
         THEN SortedValues(processed_items)
         ELSE List(processed_items)
    ELSE IF Len(path) = 1 /\ path[1] \in DOMAIN list_sort_rules
    THEN LET sort_key == list_sort_rules[path[1]]
         IN  IF sort_key = NoKey THEN SortedTyped(processed_items)
             ELSE IF AllDictsWith(processed_items, sort_key)
             THEN SortedByKey(processed_items, sort_key)
             ELSE List(processed_items)
    ELSE List(processed_items)

RECURSIVE sort_for_reproducibility(_, _)
sort_for_reproducibility(obj, path) ==
    IF IsDict(obj)
    THEN LET sorted == SortItems(obj.dict)
             done == [i \in 1..Len(sorted) |->
                         <<sorted[i][1],
                           sort_for_reproducibility(
                               sorted[i][2],
                               IF path # <<>> THEN path \o <<".", sorted[i][1]>>
                               ELSE <<sorted[i][1]>>)>>]
         IN  IF \E i \in 1..Len(done) : IsRaised(done[i][2]) THEN Raised ELSE Dict(done)
    ELSE IF IsSet(obj) THEN SortedValues(SetToSeq(obj.set))
    ELSE IF IsList(obj)
    THEN LET processed_items ==
                 [i \in 1..Len(obj.list) |->
                     sort_for_reproducibility(obj.list[i], path \o <<"[]">>)]
         IN  IF AnyRaised(processed_items) THEN Raised
             ELSE SortList(processed_items, path)
    ELSE IF IsTuple(obj)
    THEN LET done == [i \in 1..Len(obj.tuple) |->
                         sort_for_reproducibility(obj.tuple[i], path)]
         IN  IF AnyRaised(done) THEN Raised ELSE Tuple(done)
    ELSE obj

(***************************************************************************)
(* builder.py lines 296-319: the Collector.  config.vars is the sequence   *)
(* of vars(config).items(): entries [attr, value, registered, default],    *)
(* attr the tokens of the attribute name (<<"needs_", "statuses">>),       *)
(* registered whether attr is in config._options, default its default.     *)
(* The result is [v |-> need_attributes, ev |-> the Sanitizer's events].   *)
(***************************************************************************)
startswith_needs(attr) == Head(attr) = "needs_"

\* Mutant of IsExcluded: the exclusion set is not consulted.
IsExcluded_Never(cfg, attr) == FALSE

\* Line 300: attribute in config.needscfg_exclude_vars
IsExcluded(cfg, attr) == attr \in cfg.needscfg_exclude_vars

\* Mutant of ShouldCollect: every sanitized value is written.
ShouldCollect_WriteAll(cfg, e, safe_value) == ~IsNone(safe_value)

\* Lines 306-319: whether need_attributes[config_name] is assigned.
ShouldCollect(cfg, e, safe_value) ==
    /\ ~IsNone(safe_value)
    /\ ~(cfg.needscfg_exclude_defaults /\ e.registered /\ PyEq(e.value, e.default))
    /\ (cfg.needscfg_write_all \/ e.attr \in cfg.raw_config)

RECURSIVE CollectFrom(_, _, _, _, _)
CollectFrom(entries, cfg, cx, attrs, ev) ==
    IF entries = <<>> THEN [v |-> attrs, ev |-> ev]
    ELSE
    LET e == Head(entries)
        rest == Tail(entries)
    IN  IF ~startswith_needs(e.attr) \/ IsExcluded(cfg, e.attr)
        THEN CollectFrom(rest, cfg, cx, attrs, ev)
        ELSE
        LET config_name == e.attr[2]
            safe == get_safe_config(e.value, <<"needs", ".", config_name>>, cx)
            keep == ShouldCollect(cfg, e, safe.v)
        IN  CollectFrom(rest, cfg, cx,
                        IF keep THEN DictSet(attrs, config_name, safe.v) ELSE attrs,
                        ev \o safe.ev)

(***************************************************************************)
(* builder.py lines 326-373: one entry of needscfg_merge_toml_files.  A    *)
(* source is [name, state, data]: state "missing" (not toml_path.exists()),*)
(* "unreadable" (OSError), "undecodable" (TOMLDecodeError) or "ok", data   *)
(* the items of the decoded document.                                      *)
(***************************************************************************)
\* need_attributes.update(value): a table is merged key by key; an empty text
\* or list adds nothing; a list of [key, value] pairs is merged as pairs;
\* anything else raises (TypeError, ValueError).
IsPair(v) == IsList(v) /\ Len(v.list) = 2 /\ IsStr(v.list[1]) /\ Len(v.list[1].str) = 1

\* Mutant of UpdateItems: a key that is already set keeps its value.
RECURSIVE UpdateItems_KeepExisting(_, _)
UpdateItems_KeepExisting(attrs, items) ==
    IF items = <<>> THEN attrs
    ELSE UpdateItems_KeepExisting(
             IF DictHas(attrs, Head(items)[1]) THEN attrs
             ELSE DictSet(attrs, Head(items)[1], Head(items)[2]),
             Tail(items))

RECURSIVE UpdateItems(_, _)
UpdateItems(attrs, items) ==
    IF items = <<>> THEN attrs
    ELSE UpdateItems(DictSet(attrs, Head(items)[1], Head(items)[2]), Tail(items))

dict_update(attrs, value) ==
    IF IsDict(value) THEN [ok |-> TRUE, v |-> UpdateItems(attrs, value.dict)]
    ELSE IF IsStr(value) /\ value.str = <<>> THEN [ok |-> TRUE, v |-> attrs]
    ELSE IF IsList(value) /\ \A i \in 1..Len(value.list) : IsPair(value.list[i])
    THEN [ok |-> TRUE,
          v |-> UpdateItems(attrs, [i \in 1..Len(value.list) |->
                                       <<value.list[i].list[1].str[1],
                                         value.list[i].list[2]>>])]
    ELSE [ok |-> FALSE, v |-> attrs]

\* Mutant of MergeData: a root key that is already collected keeps its value.
RECURSIVE MergeData_FirstWins(_, _, _)
MergeData_FirstWins(data, attrs, extra) ==
    IF data = <<>> THEN [ok |-> TRUE, attrs |-> attrs, extra |-> extra]
    ELSE LET key == Head(data)[1]
             value == Head(data)[2]
         IN  IF key = "needs"
             THEN LET u == dict_update(attrs, value)
                  IN  IF u.ok THEN MergeData_FirstWins(Tail(data), u.v, extra)
                      ELSE [ok |-> FALSE, attrs |-> attrs, extra |-> extra]
             ELSE MergeData_FirstWins(Tail(data), attrs,
                                      IF DictHas(extra, key) THEN extra
                                      ELSE DictSet(extra, key, value))

\* The loop over merge_data.items(), lines 361-367.
RECURSIVE MergeData(_, _, _)
MergeData(data, attrs, extra) ==
    IF data = <<>> THEN [ok |-> TRUE, attrs |-> attrs, extra |-> extra]
    ELSE LET key == Head(data)[1]
             value == Head(data)[2]
         IN  IF key = "needs"
             THEN LET u == dict_update(attrs, value)
                  IN  IF u.ok THEN MergeData(Tail(data), u.v, extra)
                      ELSE [ok |-> FALSE, attrs |-> attrs, extra |-> extra]
             ELSE MergeData(Tail(data), attrs, DictSet(extra, key, value))

(***************************************************************************)
(* builder.py lines 376-393: final_toml_data.                              *)
(***************************************************************************)
SortAdditional(extra) ==
    [i \in 1..Len(extra) |->
        <<extra[i][1],
          IF IsDict(extra[i][2]) THEN Dict(SortItems(extra[i][2].dict)) ELSE extra[i][2]>>]

BuildFinal(sorted_needs, extra) ==
    SortItems(<<(<<"needs", sorted_needs>>)>> \o SortAdditional(extra))

(***************************************************************************)
(* builder.py lines 396-406: tomli_w.dumps and the header.  The codec is   *)
(* opaque: a document's text is the document as the codec sees it -- a     *)
(* tuple is written as an array, like a list -- and the text of a file is  *)
(* [header, toml].                                                         *)
(***************************************************************************)
RECURSIVE dumps(_)
dumps(v) ==
    IF IsDict(v)
    THEN Dict([i \in 1..Len(v.dict) |-> <<v.dict[i][1], dumps(v.dict[i][2])>>])
    ELSE IF IsList(v) THEN List([i \in 1..Len(v.list) |-> dumps(v.list[i])])
    ELSE IF IsTuple(v) THEN List([i \in 1..Len(v.tuple) |-> dumps(v.tuple[i])])
    ELSE v

Render(final, add_header) == [header |-> add_header, toml |-> dumps(Dict(final))]

Absent == [absent |-> TRUE]
NoText == [notext |-> TRUE]

\* A file somebody else wrote: text no invocation renders.
ForeignText == [header |-> FALSE, toml |-> Word("x")]

(***************************************************************************)
(* The inputs of the model: namespaces, merge sources, options.            *)
(***************************************************************************)
Entry(attr, value, registered, default) ==
    [attr |-> attr, value |-> value, registered |-> registered, default |-> default]

Needs(name) == <<"needs_", name>>

StatusA == Dict(<< <<"name", Word("a")>>, <<"description", Word("x")>> >>)
StatusB == Dict(<< <<"name", Word("b")>>, <<"description", Word("y")>> >>)

E_project == Entry(<<"project">>, Word("p"), TRUE, Word("p"))
E_build_json(b) == Entry(Needs("build_json"), Bool(b), TRUE, Bool(FALSE))
E_id_length == Entry(Needs("id_length"), IntV(5), TRUE, IntV(5))
E_statuses(l) == Entry(Needs("statuses"), List(l), TRUE, List(<<>>))
E_debug_path(v) == Entry(Needs("schema_debug_path"), v, TRUE, Word("d"))
E_id_regex == Entry(Needs("id_regex"), None, TRUE, None)
E_functions == Entry(Needs("functions"), Obj("function"), TRUE, List(<<>>))
E_from_toml == Entry(Needs("from_toml"), Word("f"), TRUE, None)
E_render_context == Entry(Needs("render_context"), SetOf({IntV(1), Word("a")}), TRUE,
                          Dict(<<>>))
E_types == Entry(Needs("types"),
                 List(<<Dict(<< <<"title", IntV(1)>> >>),
                        Dict(<< <<"title", Word("a")>> >>)>>),
                 TRUE, List(<<>>))

\* "/p/sib/f": a file beside the output directory /p/out.
SiblingFile == <<"/", "p", "/", "sib", "/", "f">>

\* outpath: ${outdir}/ubproject.toml with outdir /p/out, as parts.
OutPath == <<"/", "p", "out", "ubproject.toml">>

DebugPathRule ==
    [kind |-> "str", field |-> <<"needs_", "schema_debug_path">>,
     prefix |-> <<>>, suffix |-> <<>>]

DefaultExcludeVars ==
    {Needs("from_toml"), Needs("from_toml_table"),
     Needs("schema_definitions_from_json")}

Source(name, state, data) == [name |-> name, state |-> state, data |-> data]

SrcMissing == Source("m", "missing", <<>>)
SrcUnreadable == Source("q", "unreadable", <<>>)
SrcUndecodable == Source("g", "undecodable", <<>>)
SrcA == Source("a", "ok",
               << <<"needs", Dict(<< <<"build_json", Bool(FALSE)>>,
                                     <<"id_length", IntV(3)>>,
                                     <<"render_context", Dict(<< <<"a", Word("x")>> >>)>> >>)>>,
                  <<"project", Dict(<< <<"name", Word("x")>>,
                                       <<"description", Word("y")>> >>)>> >>)
SrcB == Source("b", "ok",
               << <<"project", Dict(<< <<"name", Word("z")>> >>)>>,
                  <<"needs", Dict(<< <<"id_length", IntV(7)>>,
                                     <<"render_context", Dict(<< <<"b", Word("y")>> >>)>>,
                                     <<"statuses", List(<<StatusB, StatusA>>)>> >>)>> >>)
\* A document with a root table that nests a table, keys not in order.
SrcNested == Source("d", "ok",
                    << <<"project", Dict(<< <<"b", Dict(<< <<"y", IntV(1)>>,
                                                           <<"x", IntV(2)>> >>)>>,
                                            <<"a", IntV(1)>> >>)>>,
                       <<"needs", Dict(<< <<"render_context",
                                            Dict(<< <<"b", Dict(<< <<"y", IntV(1)>>,
                                                                   <<"x", IntV(2)>> >>)>>,
                                                    <<"a", IntV(1)>> >>)>> >>)>> >>)
\* A decodable document whose top-level needs entry is not a table.
SrcNotTable == Source("c", "ok", << <<"needs", IntV(1)>> >>)

\* What a scenario fixes: the namespace, the path rules, the merge sources.
Scenario(entries, raw, rules, sources) ==
    [vars |-> entries, raw_config |-> raw, needscfg_relative_path_fields |-> rules,
     needscfg_merge_toml_files |-> sources]

Scenarios ==
    { Scenario(<<E_project, E_build_json(TRUE)>>, {Needs("build_json")}, <<>>, <<>>),
      Scenario(<<E_build_json(FALSE), E_id_length>>, {Needs("build_json")}, <<>>, <<>>),
      Scenario(<<E_statuses(<<StatusB, StatusA>>), E_build_json(TRUE)>>,
               {Needs("statuses"), Needs("build_json")}, <<>>, <<>>),
      Scenario(<<E_debug_path(PathObj(SiblingFile))>>, {Needs("schema_debug_path")},
               <<>>, <<>>),
      Scenario(<<E_debug_path(PathObj(SiblingFile))>>, {Needs("schema_debug_path")},
               <<DebugPathRule>>, <<>>),
      Scenario(<<E_debug_path(Str(SiblingFile))>>, {Needs("schema_debug_path")},
               <<DebugPathRule>>, <<>>),
      Scenario(<<E_id_regex, E_functions, E_from_toml, E_build_json(TRUE)>>,
               {Needs("id_regex"), Needs("functions"), Needs("from_toml"),
                Needs("build_json")}, <<>>, <<>>),
      Scenario(<<E_render_context>>, {Needs("render_context")}, <<>>, <<>>),
      Scenario(<<E_types>>, {Needs("types")}, <<>>, <<>>),
      Scenario(<<E_build_json(TRUE)>>, {Needs("build_json")}, <<>>, <<SrcMissing>>),
      Scenario(<<E_build_json(TRUE)>>, {Needs("build_json")}, <<>>, <<SrcA>>),
      Scenario(<<E_build_json(TRUE)>>, {Needs("build_json")}, <<>>,
               <<SrcA, SrcUndecodable, SrcB>>),
      Scenario(<<E_build_json(TRUE)>>, {Needs("build_json")}, <<>>,
               <<SrcNotTable, SrcA>>) }

\* A scenario with the policy flags of the Writer.
WithFlags(sc, warn, overwrite, header) ==
    [vars |-> sc.vars, raw_config |-> sc.raw_config,
     needscfg_relative_path_fields |-> sc.needscfg_relative_path_fields,
     needscfg_merge_toml_files |-> sc.needscfg_merge_toml_files,
     needscfg_exclude_vars |-> DefaultExcludeVars,
     needscfg_write_all |-> FALSE,
     needscfg_exclude_defaults |-> FALSE,
     needscfg_add_header |-> header,
     needscfg_warn_on_diff |-> warn,
     needscfg_overwrite |-> overwrite]

Configs ==
    {WithFlags(sc, w, o, h) : sc \in Scenarios, w \in BOOLEAN, o \in BOOLEAN, h \in BOOLEAN}

\* The merge sources of SpecMerge: every list of at most MaxSources sources.
SourceUniverse ==
    {SrcMissing, SrcUnreadable, SrcUndecodable, SrcA, SrcB, SrcNested, SrcNotTable}

BoundedSeq(S, n) == UNION {[1..k -> S] : k \in 0..n}

E_title == Entry(Needs("title"), Word("z"), TRUE, Word("z"))

MergeConfigs ==
    {WithFlags(Scenario(entries,
                        {Needs("build_json"), Needs("id_length"), Needs("title")},
                        <<>>, srcs),
               TRUE, FALSE, TRUE) : srcs \in BoundedSeq(SourceUniverse, MaxSources),
                                    entries \in {<<E_build_json(TRUE), E_id_length, E_title>>,
                                                 <<>>}}

\* The configurations of SpecCollect: two namespaces, every raw_config over
\* their names, either collection mode, either setting of exclude_defaults,
\* the default exclusion set or one that also names needs_build_json or
\* needs_functions, and no
\* merge source or one whose needs table defines build_json.
E_tags == Entry(Needs("tags"), List(<<>>), FALSE, List(<<>>))

Namespaces ==
    {<<E_project, E_build_json(TRUE), E_id_length, E_id_regex, E_functions, E_from_toml>>,
     <<E_build_json(FALSE), E_project, E_tags, E_from_toml,
       E_debug_path(PathObj(SiblingFile))>>}

RawNames == {<<"project">>, Needs("build_json"), Needs("id_length"), Needs("functions"),
             Needs("from_toml")}

CollectConfigs ==
    {[vars |-> ns, raw_config |-> raw,
      needscfg_relative_path_fields |-> <<>>,
      needscfg_merge_toml_files |-> srcs,
      needscfg_exclude_vars |-> ex,
      needscfg_write_all |-> wa,
      needscfg_exclude_defaults |-> ed,
      needscfg_add_header |-> TRUE,
      needscfg_warn_on_diff |-> TRUE,
      needscfg_overwrite |-> FALSE] :
        ns \in Namespaces, raw \in SUBSET RawNames, srcs \in {<<>>, <<SrcA>>},
        ex \in {DefaultExcludeVars, DefaultExcludeVars \cup {Needs("build_json")},
                 DefaultExcludeVars \cup {Needs("functions")}},
        wa \in BOOLEAN, ed \in BOOLEAN}

NoConfig == WithFlags(Scenario(<<>>, {}, <<>>, <<>>), FALSE, FALSE, FALSE)

(***************************************************************************)
(* The state machine: serialized invocations of write_needscfg_file        *)
(* against one output path.  pc is the position inside the function:       *)
(*   "idle"    not called yet                                              *)
(*   "collect" called, before line 291                                     *)
(*   "merge"   in the loop of lines 326-373, at entry idx                  *)
(*   "write"   final_toml_data is built, before line 396                   *)
(*   "done"    returned            "raised"  left by an exception          *)
(***************************************************************************)
Ancestors == {SubSeq(OutPath, 1, n) : n \in 1..(Len(OutPath) - 1)}

Cx == [rules |-> config.needscfg_relative_path_fields, outpath |-> OutPath,
       is_file |-> file # Absent]

Init ==
    /\ file \in {Absent, ForeignText}
    /\ dirs \in {{d \in Ancestors : Len(d) <= n} : n \in 1..(Len(OutPath) - 1)}
    /\ file # Absent => dirs = Ancestors
    /\ writable \in BOOLEAN
    /\ config = NoConfig
    /\ pc = "idle"
    /\ idx = 0
    /\ need_attributes = <<>>
    /\ additional_root_data = <<>>
    /\ final_toml_data = <<>>
    /\ new_content = NoText
    /\ log = <<>>
    /\ existed = Absent
    /\ existed_dirs = {}
    /\ prev_content = NoText
    /\ rerun = FALSE
    /\ raised_in = "none"
    /\ runs = 0
    /\ ox = None /\ oy = None /\ applied = FALSE

\* The host calls the function: with a new configuration, or once more with
\* the configuration of the invocation that just returned.
Begin(cfg, again) ==
    /\ pc \in {"idle", "done", "raised"}
    /\ runs < MaxRuns
    /\ runs' = runs + 1
    /\ config' = cfg
    /\ rerun' = again
    /\ prev_content' = IF again THEN new_content ELSE NoText
    /\ pc' = "collect"
    /\ idx' = 0
    /\ need_attributes' = <<>>
    /\ additional_root_data' = <<>>
    /\ final_toml_data' = <<>>
    /\ new_content' = NoText
    /\ log' = <<>>
    /\ existed' = file
    /\ existed_dirs' = dirs
    /\ raised_in' = "none"
    /\ UNCHANGED <<file, dirs, writable, ox, oy, applied>>

Start == \E cfg \in Configs : Begin(cfg, FALSE)

Restart == pc = "done" /\ Begin(config, TRUE)

\* Lines 291-322: resolve outpath, collect and sanitize the needs_* attributes.
Collect ==
    /\ pc = "collect"
    /\ LET c == CollectFrom(config.vars, config, Cx, <<>>, <<>>)
       IN  /\ need_attributes' = c.v
           /\ log' = log \o c.ev
    /\ additional_root_data' = <<>>
    /\ pc' = "merge"
    /\ idx' = 1
    /\ UNCHANGED <<file, dirs, writable, config, final_toml_data, new_content, existed,
                   existed_dirs, prev_content, rerun, raised_in, runs, ox, oy, applied>>

\* Mutant of SourceLoads: a file that cannot be decoded counts as read.
SourceLoads_Undecodable(src) == src.state \in {"ok", "undecodable"}

\* Lines 329-356: the file exists, can be read and decodes.
SourceLoads(src) == src.state = "ok"

\* Lines 326-373: one iteration of the loop over needscfg_merge_toml_files.
MergeStep ==
    /\ pc = "merge"
    /\ idx <= Len(config.needscfg_merge_toml_files)
    /\ LET src == config.needscfg_merge_toml_files[idx]
           m == MergeData(src.data, need_attributes, additional_root_data)
       IN  IF ~SourceLoads(src)
           THEN /\ log' = Append(log, Warning("merge_failed", <<src.name>>))
                /\ pc' = "merge"
                /\ raised_in' = raised_in
                /\ UNCHANGED <<need_attributes, additional_root_data>>
           ELSE IF m.ok
           THEN /\ need_attributes' = m.attrs
                /\ additional_root_data' = m.extra
                /\ log' = Append(log, Info("merge", <<src.name>>))
                /\ pc' = "merge"
                /\ raised_in' = raised_in
           ELSE /\ pc' = "raised"
                /\ raised_in' = "Merger"
                /\ UNCHANGED <<need_attributes, additional_root_data, log>>
    /\ idx' = idx + 1
    /\ UNCHANGED <<file, dirs, writable, config, final_toml_data, new_content, existed,
                   existed_dirs, prev_content, rerun, runs, ox, oy, applied>>

\* Lines 376-393: sort the needs table, build and sort the root table.
Order ==
    /\ pc = "merge"
    /\ idx > Len(config.needscfg_merge_toml_files)
    /\ LET sorted_needs == sort_for_reproducibility(Dict(need_attributes), <<>>)
       IN  IF IsRaised(sorted_needs)
           THEN /\ pc' = "raised"
                /\ raised_in' = "Orderer"
                /\ UNCHANGED final_toml_data
           ELSE /\ pc' = "write"
                /\ raised_in' = raised_in
                /\ final_toml_data' = BuildFinal(sorted_needs, additional_root_data)
    /\ UNCHANGED <<file, dirs, writable, config, idx, need_attributes,
                   additional_root_data, new_content, log, existed, existed_dirs,
                   prev_content, rerun, runs, ox, oy, applied>>

DiffWarning(existing_content, content) ==
    [level |-> "warning", subtype |-> "content_diff", at |-> <<>>,
     existing |-> existing_content, new |-> content]

\* Mutant of ContentDiffers: the comparison always reports a difference.
ContentDiffers_Always(existing_content, content) == TRUE

\* Line 411: content_differs = existing_content != new_content
ContentDiffers(existing_content, content) == existing_content # content

\* Mutant of ShouldWarn: the warning no longer depends on the comparison.
ShouldWarn_Unconditional(content_differs, warn_on_diff) == warn_on_diff

\* Line 413: if content_differs and config.needscfg_warn_on_diff
ShouldWarn(content_differs, warn_on_diff) == content_differs /\ warn_on_diff

\* Mutants of ShouldOverwrite: the flag is ignored, or never honoured.
ShouldOverwrite_IgnoresFlag(content_differs, overwrite) == content_differs
ShouldOverwrite_Never(content_differs, overwrite) == FALSE

\* Line 438: if content_differs and config.needscfg_overwrite
ShouldOverwrite(content_differs, overwrite) == content_differs /\ overwrite

\* Mutant of MkdirParents: mkdir without parents=True.
MkdirParents_OnlyLast(existing_dirs) == existing_dirs \cup {parent(OutPath)}

\* Line 455: outpath.parent.mkdir(parents=True, exist_ok=True)
MkdirParents(existing_dirs) == existing_dirs \cup Ancestors

\* outpath.write_text(new_content), after the mkdir of line 455 when with_mkdir:
\* they succeed on a file system that accepts the operations and raise OSError
\* otherwise, leaving it as it was.  `events` are the events logged before.
WriteText(content, events, written_info, with_mkdir) ==
    IF writable
    THEN /\ file' = content
         /\ dirs' = IF with_mkdir THEN MkdirParents(dirs) ELSE dirs
         /\ log' = log \o events
                       \o (IF with_mkdir THEN <<Io("mkdir")>> ELSE <<>>)
                       \o <<Io("write_text"), Info(written_info, <<>>)>>
         /\ pc' = "done"
         /\ raised_in' = raised_in
    ELSE /\ log' = log \o events
         /\ pc' = "raised"
         /\ raised_in' = "Writer"
         /\ UNCHANGED <<file, dirs>>

\* Lines 396-459: render, compare with the existing file, warn, write.
Write ==
    /\ pc = "write"
    /\ LET content == Render(final_toml_data, config.needscfg_add_header)
           content_differs == ContentDiffers(file, content)
           warning == IF ShouldWarn(content_differs, config.needscfg_warn_on_diff)
                      THEN <<DiffWarning(file, content)>> ELSE <<>>
       IN  /\ new_content' = content
           /\ IF file # Absent
              THEN IF ShouldOverwrite(content_differs, config.needscfg_overwrite)
                   THEN WriteText(content, warning, "updated_written", FALSE)
                   ELSE /\ log' = log \o warning
                                  \o <<Info(IF content_differs THEN "not_overwriting"
                                            ELSE "unchanged", <<>>)>>
                        /\ pc' = "done"
                        /\ raised_in' = raised_in
                        /\ UNCHANGED <<file, dirs>>
              ELSE WriteText(content, <<>>, "written", TRUE)
    /\ UNCHANGED <<writable, config, idx, need_attributes, additional_root_data,
                   final_toml_data, existed, existed_dirs, prev_content, rerun, runs,
                   ox, oy, applied>>

Next == Start \/ Restart \/ Collect \/ MergeStep \/ Order \/ Write

Spec == Init /\ [][Next]_vars

\* One invocation, over every list of merge sources.
StartMerge == pc = "idle" /\ \E cfg \in MergeConfigs : Begin(cfg, FALSE)

NextMerge == StartMerge \/ Collect \/ MergeStep \/ Order \/ Write

SpecMerge == Init /\ [][NextMerge]_vars

\* One invocation, over the configurations of the Collector.
StartCollect == pc = "idle" /\ \E cfg \in CollectConfigs : Begin(cfg, FALSE)

NextCollect == StartCollect \/ Collect \/ MergeStep \/ Order \/ Write

SpecCollect == Init /\ [][NextCollect]_vars

(***************************************************************************)
(* SpecSanitize: get_safe_config applied to one value tree of the field    *)
(* needs_external_needs, under a list of relativization rules.  ox is the  *)
(* call [obj, path, cx], oy its result [v, ev].                            *)
(***************************************************************************)
SanitizeLeaves ==
    {None, Obj("function"), IntV(1), Word("a"), Str(SiblingFile),
     PathObj(SiblingFile), PathObj(<<"sib", "/", "f">>)}

\* Mappings of up to three entries, lists and tuples of up to MaxLen elements
\* and sets of up to MaxLen elements over the leaves; and each of these once
\* more inside a list, behind a supported sibling, and inside a mapping.
SanitizeTrees ==
    LET keys == <<"a", "b", "json_path">>
        flat == SanitizeLeaves
                    \cup {Dict([i \in 1..Len(vs) |-> <<keys[i], vs[i]>>]) :
                              vs \in BoundedSeq(SanitizeLeaves, Len(keys))}
                    \cup {List(vs) : vs \in BoundedSeq(SanitizeLeaves, MaxLen)}
                    \cup {Tuple(vs) : vs \in BoundedSeq(SanitizeLeaves, MaxLen)}
                    \cup {SetOf(S) : S \in {T \in SUBSET SanitizeLeaves :
                                                  Cardinality(T) <= MaxLen}}
    IN  flat \cup {List(<<v>>) : v \in flat}
             \cup {List(<<IntV(1), v>>) : v \in flat}
             \cup {Dict(<< <<"json_path", v>> >>) : v \in flat}

SanitizeRules ==
    LET rule(field) == [kind |-> "str", field |-> field, prefix |-> <<>>, suffix |-> <<>>]
    IN  {<<>>,
         <<rule(<<"needs_", "external_needs">>)>>,
         <<rule(<<"needs_", "external_needs", "[*]">>)>>,
         <<rule(<<"needs_", "external_needs", ".", "json_path">>)>>,
         <<rule(<<"needs_", "external_needs", "[*]", ".", "json_path">>),
           rule(<<"needs_", "external_needs", "[*]", "[*]">>)>>}

\* Texts that embed a path between the prefix "json:" and the suffix "/x",
\* with either, both or neither, the path absolute or relative; and the
\* rules for the field, as a string or as a table with prefix and suffix.
WrappedTexts ==
    {Str(pre \o body \o suf) :
        pre \in {<<>>, <<"json:">>},
        body \in {SiblingFile, <<"sib", "/", "f">>},
        suf \in {<<>>, <<"/", "x">>}}

AffixRules ==
    {<<[kind |-> k, field |-> <<"needs_", "external_needs">>, prefix |-> pre, suffix |-> suf]>> :
        k \in {"str", "dict"}, pre \in {<<>>, <<"json:">>}, suf \in {<<>>, <<"/", "x">>}}
        \cup {<<>>}

InitSanitize ==
    /\ file = Absent /\ dirs = {<<"/">>} /\ writable = TRUE
    /\ config = NoConfig /\ pc = "idle" /\ idx = 0
    /\ need_attributes = <<>> /\ additional_root_data = <<>>
    /\ final_toml_data = <<>> /\ new_content = NoText /\ log = <<>>
    /\ existed = Absent /\ existed_dirs = {} /\ prev_content = NoText
    /\ rerun = FALSE /\ raised_in = "none" /\ runs = 0
    /\ applied = FALSE
    /\ oy = None
    /\ \E is_file \in BOOLEAN :
           \/ \E obj \in SanitizeTrees, rules \in SanitizeRules :
                  ox = [obj |-> obj, path |-> <<"needs", ".", "external_needs">>,
                        cx |-> [rules |-> rules, outpath |-> OutPath, is_file |-> is_file]]
           \/ \E obj \in WrappedTexts, rules \in AffixRules :
                  ox = [obj |-> obj, path |-> <<"needs", ".", "external_needs">>,
                        cx |-> [rules |-> rules, outpath |-> OutPath, is_file |-> is_file]]

\* Line 304: safe_value = get_safe_config(value, f"needs.{config_name}", outpath)
ApplySanitize ==
    /\ ~applied
    /\ oy' = get_safe_config(ox.obj, ox.path, ox.cx)
    /\ applied' = TRUE
    /\ UNCHANGED <<file, dirs, writable, config, pc, idx, need_attributes,
                   additional_root_data, final_toml_data, new_content, log, existed,
                   existed_dirs, prev_content, rerun, raised_in, runs, ox>>

SpecSanitize == InitSanitize /\ [][ApplySanitize]_vars

(***************************************************************************)
(* SpecRelativize: relativize_path applied to an absolute target and the   *)
(* output file, which exists (is_file) or is yet to be written.  ox is the *)
(* call, oy the text returned.  Paths have up to MaxLen + 1 segments; the  *)
(* target may hold ".." segments.                                          *)
(***************************************************************************)
InitRelativize ==
    /\ file = Absent /\ dirs = {<<"/">>} /\ writable = TRUE
    /\ config = NoConfig /\ pc = "idle" /\ idx = 0
    /\ need_attributes = <<>> /\ additional_root_data = <<>>
    /\ final_toml_data = <<>> /\ new_content = NoText /\ log = <<>>
    /\ existed = Absent /\ existed_dirs = {} /\ prev_content = NoText
    /\ rerun = FALSE /\ raised_in = "none" /\ runs = 0
    /\ applied = FALSE
    /\ oy = None
    /\ \E target \in BoundedSeq({"p", "out", "sib", ".."}, MaxLen + 1),
          outdir \in BoundedSeq({"p", "out", "sib"}, MaxLen + 1),
          is_file \in BOOLEAN :
           ox = [absolute_path |-> <<"/">> \o target,
                 base_path |-> <<"/">> \o outdir \o <<"ubproject.toml">>,
                 is_file |-> is_file]

\* Line 109: relative_path = relativize_path(path_obj, outpath)
ApplyRelativize ==
    /\ ~applied
    /\ oy' = relativize_path(ox.absolute_path, ox.base_path, ox.is_file)
    /\ applied' = TRUE
    /\ UNCHANGED <<file, dirs, writable, config, pc, idx, need_attributes,
                   additional_root_data, final_toml_data, new_content, log, existed,
                   existed_dirs, prev_content, rerun, raised_in, runs, ox>>

SpecRelativize == InitRelativize /\ [][ApplyRelativize]_vars

(***************************************************************************)
(* utils.py relativize_path on a file system with symbolic links.  A link  *)
(* is [dir |-> the parts of the directory it is an entry of, name |-> its  *)
(* name, target |-> the parts of entry.resolve()].  The target path and    *)
(* the base path hold no link themselves.  The text of a path is measured  *)
(* in characters, as len(candidate_str) does.                              *)
(***************************************************************************)
probe_depth == 10

RECURSIVE TextLen(_)
TextLen(toks) == IF toks = <<>> THEN 0 ELSE Len(Head(toks)) + TextLen(Tail(toks))

\* Lines 109-176: the directories whose entries are probed, the base first:
\* at most probe_depth of them, and never the root, where the loop breaks.
ProbedLevels(base) ==
    {k \in 0..(probe_depth - 1) : Len(base) - k > 1}

\* Lines 114-171: the texts of the candidates, one for every probed link
\* whose target the resolved path is relative to.  A link in the base
\* directory gives name/rest, one k levels up gives k times "..", name, rest.
SymlinkCandidates(resolved_absolute_path, base, links) ==
    {as_posix(Dots(k) \o <<l.name>>
                  \o SubSeq(resolved_absolute_path, Len(l.target) + 1,
                            Len(resolved_absolute_path))) :
        <<k, l>> \in {kl \in ProbedLevels(base) \X links :
                          /\ kl[2].dir = SubSeq(base, 1, Len(base) - kl[1])
                          /\ IsPrefix(kl[2].target, resolved_absolute_path)}}

\* Mutant of PreferSymlink: a candidate as long as the standard text wins.
PreferSymlink_OrEqual(best_relative_path, standard_relative_path) ==
    TextLen(best_relative_path) <= TextLen(standard_relative_path)

\* Lines 215-217: len(best_relative_path) < len(standard_relative_path)
PreferSymlink(best_relative_path, standard_relative_path) ==
    TextLen(best_relative_path) < TextLen(standard_relative_path)

\* The texts the call can return.  iterdir() yields the entries in no
\* defined order and the first of the shortest candidates is kept (line
\* 135), so with several shortest candidates any of them may be the best.
relativize_path_links(absolute_path, base_path, base_is_file, links) ==
    LET resolved_absolute_path == resolve(as_posix(absolute_path))
        resolved_base == resolve(as_posix(base_path))
        base == IF base_is_file THEN parent(resolved_base) ELSE resolved_base
        candidates == SymlinkCandidates(resolved_absolute_path, base, links)
        shortest == {c \in candidates : \A d \in candidates : TextLen(c) <= TextLen(d)}
        standard_relative_path == relativize_path(absolute_path, base_path, base_is_file)
    IN  IF candidates = {} THEN {standard_relative_path}
        ELSE {IF PreferSymlink(best_relative_path, standard_relative_path)
              THEN best_relative_path ELSE standard_relative_path :
                  best_relative_path \in shortest}

\* SpecLinks: the output directory /p/out or a directory eleven levels deep,
\* three targets, and at most MaxLen links out of LinkUniverse.
DeepDir == <<"/", "a", "a", "a", "a", "a", "a", "a", "a", "a", "a", "a">>

Link(dir, name, target) == [dir |-> dir, name |-> name, target |-> target]

LinkUniverse ==
    {Link(<<"/", "p", "out">>, "l", <<"/", "p", "sib">>),
     Link(<<"/", "p", "out">>, "m", <<"/", "p", "sib">>),
     Link(<<"/", "p", "out">>, "s", <<"/", "p", "sib", "f">>),
     Link(<<"/", "p", "out">>, "t", <<"/", "t">>),
     Link(<<"/", "p", "out">>, "x", <<"/", "q">>),
     Link(<<"/", "p">>, "k", <<"/", "p", "sib">>),
     Link(<<"/", "p">>, "lnk", <<"/", "p", "sib">>),
     Link(<<"/", "p">>, "longer", <<"/", "p", "sib">>),
     Link(<<"/">>, "r", <<"/", "p", "sib">>),
     Link(SubSeq(DeepDir, 1, 2), "l", <<"/", "t">>),
     Link(SubSeq(DeepDir, 1, 3), "l", <<"/", "t">>)}

InitLinks ==
    /\ file = Absent /\ dirs = {<<"/">>} /\ writable = TRUE
    /\ config = NoConfig /\ pc = "idle" /\ idx = 0
    /\ need_attributes = <<>> /\ additional_root_data = <<>>
    /\ final_toml_data = <<>> /\ new_content = NoText /\ log = <<>>
    /\ existed = Absent /\ existed_dirs = {} /\ prev_content = NoText
    /\ rerun = FALSE /\ raised_in = "none" /\ runs = 0
    /\ applied = FALSE
    /\ oy = None
    /\ \E target \in {<<"/", "p", "sib", "f">>, <<"/", "p", "sib">>, <<"/", "t", "f">>},
          base \in {[path |-> OutPath, is_file |-> TRUE],
                    [path |-> DeepDir, is_file |-> FALSE]},
          links \in {S \in SUBSET LinkUniverse : Cardinality(S) <= MaxLen} :
           ox = [absolute_path |-> target, base_path |-> base.path,
                 is_file |-> base.is_file, links |-> links]

\* Line 109 of builder.py, on this file system; oy is the text returned.
ApplyLinks ==
    /\ ~applied
    /\ oy' \in relativize_path_links(ox.absolute_path, ox.base_path, ox.is_file, ox.links)
    /\ applied' = TRUE
    /\ UNCHANGED <<file, dirs, writable, config, pc, idx, need_attributes,
                   additional_root_data, final_toml_data, new_content, log, existed,
                   existed_dirs, prev_content, rerun, raised_in, runs, ox>>

SpecLinks == InitLinks /\ [][ApplyLinks]_vars

(***************************************************************************)
(* builder.py lines 408-459 run by two invocations at once against the     *)
(* same output path (setup declares the extension parallel-safe, main.py   *)
(* lines 406-413; nothing locks the file).  An invocation is the sequence  *)
(* of its file-system calls: exists() (line 409), read_text() (line 410),  *)
(* then write_text() (lines 439 and 456), which opens the file -- creating *)
(* or truncating it -- and then writes the text.  ox[p] is the invocation  *)
(* p: where it is, its rendered text, what exists() returned, whether it   *)
(* began while the other was between its first and its last call, whether  *)
(* it has written.  oy is the set of [by, of]: invocation `by` truncated   *)
(* or wrote over the text that invocation `of` had written.                *)
(***************************************************************************)
Invocations == {1, 2}

Other(p) == 3 - p

EmptyText == [empty |-> TRUE]

\* Two texts written into the same file without a truncation in between.
MixedText == [mixed |-> TRUE]

RaceText(name) == [header |-> FALSE, toml |-> Word(name)]

\* The file holds what invocation q wrote.
HoldsOutputOf(q) == ox[q].wrote /\ file = ox[q].new_content

Replaces(p) ==
    IF HoldsOutputOf(Other(p)) \/ (file = MixedText /\ ox[Other(p)].wrote)
    THEN {[by |-> p, of |-> Other(p)]} ELSE {}

InitRace ==
    /\ dirs = {<<"/">>} /\ writable = TRUE
    /\ pc = "idle" /\ idx = 0
    /\ need_attributes = <<>> /\ additional_root_data = <<>>
    /\ final_toml_data = <<>> /\ new_content = NoText /\ log = <<>>
    /\ existed_dirs = {} /\ prev_content = NoText
    /\ rerun = FALSE /\ raised_in = "none" /\ runs = 0
    /\ applied = FALSE
    /\ oy = {}
    /\ file \in {Absent, ForeignText}
    /\ existed = file
    /\ \E overwrite \in BOOLEAN, warn \in BOOLEAN :
           config = [needscfg_overwrite |-> overwrite, needscfg_warn_on_diff |-> warn]
    /\ \E name \in {"a", "b"} :
           ox = [p \in Invocations |->
                    [pc |-> "exists",
                     new_content |-> RaceText(IF p = 1 THEN "a" ELSE name),
                     found |-> FALSE, concurrent |-> FALSE, wrote |-> FALSE]]

\* Mutant of FileExists: the file is never found.
FileExists_Never(f) == FALSE

\* outpath.exists()
FileExists(f) == f # Absent

\* Line 409: if outpath.exists()
Exists(p) ==
    /\ ox[p].pc = "exists"
    /\ ox' = [ox EXCEPT ![p].found = FileExists(file),
                        ![p].concurrent = ox[Other(p)].pc \notin {"exists", "done"},
                        ![p].pc = IF FileExists(file) THEN "read" ELSE "open"]
    /\ applied' = TRUE
    /\ UNCHANGED <<file, dirs, writable, config, pc, idx, need_attributes,
                   additional_root_data, final_toml_data, new_content, log, existed,
                   existed_dirs, prev_content, rerun, raised_in, runs, oy>>

\* Lines 410-452: read the file, compare, warn, and take the branch.
Read(p) ==
    /\ ox[p].pc = "read"
    /\ LET content_differs == ContentDiffers(file, ox[p].new_content)
           warning == IF ShouldWarn(content_differs, config.needscfg_warn_on_diff)
                      THEN <<DiffWarning(file, ox[p].new_content)>> ELSE <<>>
       IN  IF ShouldOverwrite(content_differs, config.needscfg_overwrite)
           THEN /\ ox' = [ox EXCEPT ![p].pc = "open"]
                /\ log' = log \o warning
           ELSE /\ ox' = [ox EXCEPT ![p].pc = "done"]
                /\ log' = log \o warning
                              \o <<Info(IF content_differs THEN "not_overwriting"
                                        ELSE "unchanged", <<>>)>>
    /\ UNCHANGED <<file, dirs, writable, config, pc, idx, need_attributes,
                   additional_root_data, final_toml_data, new_content, existed,
                   existed_dirs, prev_content, rerun, raised_in, runs, oy, applied>>

\* Lines 439 and 455-456: mkdir when the file was not found, then write_text
\* opens the file, which creates it or empties it.
Open(p) ==
    /\ ox[p].pc = "open"
    /\ file' = EmptyText
    /\ dirs' = IF ox[p].found THEN dirs ELSE MkdirParents(dirs)
    /\ oy' = oy \cup Replaces(p)
    /\ ox' = [ox EXCEPT ![p].pc = "write"]
    /\ UNCHANGED <<writable, config, pc, idx, need_attributes,
                   additional_root_data, final_toml_data, new_content, log, existed,
                   existed_dirs, prev_content, rerun, raised_in, runs, applied>>

\* write_text writes the text from the start of the file: over an empty file
\* the file holds the text; over what the other invocation wrote since the
\* open, the text or a mix of the two, depending on their lengths.
WriteData(p) ==
    /\ ox[p].pc = "write"
    /\ file' \in IF file = EmptyText THEN {ox[p].new_content}
                 ELSE {ox[p].new_content, MixedText}
    /\ oy' = oy \cup Replaces(p)
    /\ ox' = [ox EXCEPT ![p].pc = "done", ![p].wrote = TRUE]
    /\ log' = Append(log, Info(IF ox[p].found THEN "updated_written" ELSE "written", <<>>))
    /\ UNCHANGED <<dirs, writable, config, pc, idx, need_attributes,
                   additional_root_data, final_toml_data, new_content, existed,
                   existed_dirs, prev_content, rerun, raised_in, runs, applied>>

NextRace == \E p \in Invocations : Exists(p) \/ Read(p) \/ Open(p) \/ WriteData(p)

SpecRace == InitRace /\ [][NextRace]_vars

(***************************************************************************)
(* SpecMatch: matches_path_pattern applied to a config path and a pattern. *)
(* Both are a head ("needs." or "needs_" or nothing), a field name and up  *)
(* to MaxLen further segments: indexes (numeric, non-numeric, empty), the  *)
(* wildcard, a subfield.  ox is the call, oy the result.                   *)
(***************************************************************************)
RECURSIVE Concat(_)
Concat(seqs) == IF seqs = <<>> THEN <<>> ELSE Head(seqs) \o Concat(Tail(seqs))

InitMatch ==
    /\ file = Absent /\ dirs = {<<"/">>} /\ writable = TRUE
    /\ config = NoConfig /\ pc = "idle" /\ idx = 0
    /\ need_attributes = <<>> /\ additional_root_data = <<>>
    /\ final_toml_data = <<>> /\ new_content = NoText /\ log = <<>>
    /\ existed = Absent /\ existed_dirs = {} /\ prev_content = NoText
    /\ rerun = FALSE /\ raised_in = "none" /\ runs = 0
    /\ applied = FALSE
    /\ oy = None
    /\ \E head \in {<<"needs", ".">>, <<"needs_">>, <<>>},
          phead \in {<<"needs", ".">>, <<"needs_">>},
          name \in {<<"types">>, <<"types", "_x">>},
          pname \in {<<"types">>, <<"types", "_x">>},
          segs \in BoundedSeq({<<"[", "0", "]">>, <<"[", "10", "]">>, <<"[", "a", "]">>,
                               <<"[", "]">>, <<".", "json">>}, MaxLen),
          psegs \in BoundedSeq({<<"[*]">>, <<"[", "0", "]">>, <<".", "json">>}, MaxLen) :
           ox = [config_path |-> head \o name \o Concat(segs),
                 pattern |-> phead \o pname \o Concat(psegs)]

\* Line 92: if matches_path_pattern(path, pattern)
ApplyMatch ==
    /\ ~applied
    /\ oy' = matches_path_pattern(ox.config_path, ox.pattern)
    /\ applied' = TRUE
    /\ UNCHANGED <<file, dirs, writable, config, pc, idx, need_attributes,
                   additional_root_data, final_toml_data, new_content, log, existed,
                   existed_dirs, prev_content, rerun, raised_in, runs, ox>>

SpecMatch == InitMatch /\ [][ApplyMatch]_vars

(***************************************************************************)
(* SpecOrder: sort_for_reproducibility applied to two needs mappings that  *)
(* hold the same entries, one a permutation of the other: the keys in      *)
(* either insertion order, the list at a sortable field in any order.      *)
(***************************************************************************)
SortableFields == DOMAIN list_sort_rules \cup {"extra_options"}

\* The key the field's elements are sorted by ("name" where the rule has none).
ElementKey(f) ==
    IF f \in DOMAIN list_sort_rules /\ list_sort_rules[f] # NoKey
    THEN list_sort_rules[f] ELSE "name"

\* List elements: tables with equal and with different sort-key values, a
\* table without the key, strings and an integer.
ElementsOf(f) ==
    {Dict(<< <<ElementKey(f), Word("a")>>, <<"description", Word("x")>> >>),
     Dict(<< <<ElementKey(f), Word("a")>>, <<"description", Word("y")>> >>),
     Dict(<< <<ElementKey(f), Word("b")>>, <<"description", Word("x")>> >>),
     Dict(<< <<ElementKey(f), IntV(1)>> >>),
     Dict(<< <<"description", Word("x")>> >>),
     Word("a"), Word("b"), IntV(1)}

IsPermutation(xs, ys) ==
    /\ Len(xs) = Len(ys)
    /\ \E pi \in [1..Len(xs) -> 1..Len(xs)] :
           /\ \A i, j \in 1..Len(xs) : pi[i] = pi[j] => i = j
           /\ \A i \in 1..Len(xs) : ys[i] = xs[pi[i]]

InitOrder ==
    /\ file = Absent /\ dirs = {<<"/">>} /\ writable = TRUE
    /\ config = NoConfig /\ pc = "idle" /\ idx = 0
    /\ need_attributes = <<>> /\ additional_root_data = <<>>
    /\ final_toml_data = <<>> /\ new_content = NoText /\ log = <<>>
    /\ existed = Absent /\ existed_dirs = {} /\ prev_content = NoText
    /\ rerun = FALSE /\ raised_in = "none" /\ runs = 0
    /\ applied = FALSE
    /\ \E f \in SortableFields :
       \E xs \in BoundedSeq(ElementsOf(f), MaxLen) :
       \E ys \in BoundedSeq(ElementsOf(f), MaxLen) :
           /\ IsPermutation(xs, ys)
           /\ ox = Dict(<< <<f, List(xs)>>, <<"id_length", IntV(1)>> >>)
           /\ oy \in {Dict(<< <<f, List(ys)>>, <<"id_length", IntV(1)>> >>),
                      Dict(<< <<"id_length", IntV(1)>>, <<f, List(ys)>> >>)}

\* Line 376: sort_for_reproducibility(need_attributes), on either mapping.
ApplyOrder ==
    /\ ~applied
    /\ ox' = sort_for_reproducibility(ox, <<>>)
    /\ oy' = sort_for_reproducibility(oy, <<>>)
    /\ applied' = TRUE
    /\ UNCHANGED <<file, dirs, writable, config, pc, idx, need_attributes,
                   additional_root_data, final_toml_data, new_content, log, existed,
                   existed_dirs, prev_content, rerun, raised_in, runs>>

NextOrder == ApplyOrder

SpecOrder == InitOrder /\ [][NextOrder]_vars

(***************************************************************************)
(* SpecReorder: sort_for_reproducibility applied to a needs mapping, and   *)
(* once more to its own result.  ox is the mapping, with one field that    *)
(* holds a list, a tuple or a set, or a list nested in a table, a list or  *)
(* a tuple; oy is the sequence of the results.                             *)
(***************************************************************************)
OrderValues(f) ==
    {List(vs) : vs \in BoundedSeq(ElementsOf(f), MaxLen)}
        \cup {Tuple(vs) : vs \in BoundedSeq(ElementsOf(f), MaxLen)}
        \cup {Dict(<< <<"types", List(vs)>> >>) : vs \in BoundedSeq(ElementsOf("types"), MaxLen)}
        \cup {List(<<List(vs)>>) : vs \in BoundedSeq(ElementsOf(f), MaxLen)}
        \cup {Tuple(<<List(vs)>>) : vs \in BoundedSeq(ElementsOf(f), MaxLen)}
        \cup {SetOf(S) : S \in {T \in SUBSET {Bool(TRUE), IntV(0), Word("a"), Word("b")} :
                                      Cardinality(T) <= MaxLen}}

InitReorder ==
    /\ file = Absent /\ dirs = {<<"/">>} /\ writable = TRUE
    /\ config = NoConfig /\ pc = "idle" /\ idx = 0
    /\ need_attributes = <<>> /\ additional_root_data = <<>>
    /\ final_toml_data = <<>> /\ new_content = NoText /\ log = <<>>
    /\ existed = Absent /\ existed_dirs = {} /\ prev_content = NoText
    /\ rerun = FALSE /\ raised_in = "none" /\ runs = 0
    /\ applied = FALSE
    /\ oy = <<>>
    /\ \E f \in SortableFields \cup {"id_regex"} :
       \E v \in OrderValues(f) :
           ox = Dict(<< <<f, v>>, <<"id_length", IntV(1)>> >>)

\* Line 376, and the same call on the mapping it returned.
OrderStep ==
    /\ Len(oy) < 2
    /\ ~(oy # <<>> /\ IsRaised(oy[Len(oy)]))
    /\ oy' = Append(oy, sort_for_reproducibility(IF oy = <<>> THEN ox ELSE oy[Len(oy)],
                                                 <<>>))
    /\ applied' = TRUE
    /\ UNCHANGED <<file, dirs, writable, config, pc, idx, need_attributes,
                   additional_root_data, final_toml_data, new_content, log, existed,
                   existed_dirs, prev_content, rerun, raised_in, runs, ox>>

SpecReorder == InitReorder /\ [][OrderStep]_vars

(***************************************************************************)
(* builder.py lines 425-428: the preview of the diff in the content_diff   *)
(* warning.  unified_diff is opaque: diff_lines is the list it returned,   *)
(* line i the record [line |-> i].  The preview is the sequence of the     *)
(* lines joined, then the suffix "\n... (N more lines)" as [more |-> N].   *)
(***************************************************************************)
max_diff_lines == 50

\* Mutant of DiffPreview: the whole diff, no cap.
DiffPreview_Uncapped(diff_lines) == diff_lines

DiffPreview(diff_lines) ==
    LET diff_preview == SubSeq(diff_lines, 1,
                               IF Len(diff_lines) < max_diff_lines THEN Len(diff_lines)
                               ELSE max_diff_lines)
    IN  IF Len(diff_lines) > max_diff_lines
        THEN Append(diff_preview, [more |-> Len(diff_lines) - max_diff_lines])
        ELSE diff_preview

\* SpecDiff: the preview of every diff of at most MaxDiffLines lines.
InitDiff ==
    /\ file = Absent /\ dirs = {<<"/">>} /\ writable = TRUE
    /\ config = NoConfig /\ pc = "idle" /\ idx = 0
    /\ need_attributes = <<>> /\ additional_root_data = <<>>
    /\ final_toml_data = <<>> /\ new_content = NoText /\ log = <<>>
    /\ existed = Absent /\ existed_dirs = {} /\ prev_content = NoText
    /\ rerun = FALSE /\ raised_in = "none" /\ runs = 0
    /\ applied = FALSE
    /\ oy = <<>>
    /\ \E L \in 0..MaxDiffLines : ox = [i \in 1..L |-> [line |-> i]]

ApplyDiff ==
    /\ ~applied
    /\ oy' = DiffPreview(ox)
    /\ applied' = TRUE
    /\ UNCHANGED <<file, dirs, writable, config, pc, idx, need_attributes,
                   additional_root_data, final_toml_data, new_content, log, existed,
                   existed_dirs, prev_content, rerun, raised_in, runs, ox>>

SpecDiff == InitDiff /\ [][ApplyDiff]_vars

(***************************************************************************)
(* utils.py resolve_path_template(path_template, app, outdir, srcdir), and *)
(* main.py's copy of it.  A text is its token sequence, "${outdir}" and    *)
(* "${srcdir}" one token each; the anchors are texts; the result is the    *)
(* parts of the returned Path.                                             *)
(***************************************************************************)
\* str.replace(old, new): every occurrence of the token old.
RECURSIVE replace(_, _, _)
replace(toks, old, new) ==
    IF toks = <<>> THEN <<>>
    ELSE (IF Head(toks) = old THEN new ELSE <<Head(toks)>>)
             \o replace(Tail(toks), old, new)

\* Path(path_str).parts: exactly two leading slashes are a root of their
\* own, any other number is "/"; repeated and trailing slashes vanish.
PathParts(path_str) ==
    IF path_str = <<>> \/ Head(path_str) # "/" THEN Segments(path_str)
    ELSE IF Len(path_str) >= 2 /\ path_str[2] = "/"
                               /\ ~(Len(path_str) >= 3 /\ path_str[3] = "/")
         THEN <<"//">> \o Segments(path_str)
         ELSE <<"/">> \o Segments(path_str)

\* Path.is_absolute() on parts
IsAbsoluteParts(parts) == parts # <<>> /\ Head(parts) \in {"/", "//"}

\* Mutant of resolve_path_template: a relative result is not joined.
resolve_path_template_NoJoin(path_template, outdir, srcdir, confdir) ==
    PathParts(replace(replace(path_template, "${outdir}", outdir), "${srcdir}", srcdir))

resolve_path_template(path_template, outdir, srcdir, confdir) ==
    LET path_str == replace(replace(path_template, "${outdir}", outdir),
                            "${srcdir}", srcdir)
        path == PathParts(path_str)
    IN  IF ~IsAbsoluteParts(path) THEN PathParts(confdir) \o path ELSE path

\* SpecTemplate: the templates are an optional leading "/" and at most
\* MaxLen pieces joined by "/", a piece an anchor, a name or ".."; the call
\* is the one for the output path (builder.py:292) or for a merge source
\* (builder.py:327).
TemplatePieces == {"${outdir}", "${srcdir}", "f", ".."}

Templates ==
    {lead \o JoinSegments(pieces) :
        lead \in {<<>>, <<"/">>}, pieces \in BoundedSeq(TemplatePieces, MaxLen)}

InitTemplate ==
    /\ file = Absent /\ dirs = {<<"/">>} /\ writable = TRUE
    /\ config = NoConfig /\ pc = "idle" /\ idx = 0
    /\ need_attributes = <<>> /\ additional_root_data = <<>>
    /\ final_toml_data = <<>> /\ new_content = NoText /\ log = <<>>
    /\ existed = Absent /\ existed_dirs = {} /\ prev_content = NoText
    /\ rerun = FALSE /\ raised_in = "none" /\ runs = 0
    /\ applied = FALSE
    /\ oy = <<>>
    /\ \E t \in Templates,
          outdir \in {<<"/", "p", "/", "out">>, <<"out">>},
          confdir \in {<<"/", "c">>, <<"c">>},
          site \in {"needscfg_outpath", "needscfg_merge_toml_files"} :
           ox = [path_template |-> t, outdir |-> outdir, srcdir |-> <<"/", "s">>,
                 confdir |-> confdir, site |-> site]

ApplyTemplate ==
    /\ ~applied
    /\ oy' = resolve_path_template(ox.path_template, ox.outdir, ox.srcdir, ox.confdir)
    /\ applied' = TRUE
    /\ UNCHANGED <<file, dirs, writable, config, pc, idx, need_attributes,
                   additional_root_data, final_toml_data, new_content, log, existed,
                   existed_dirs, prev_content, rerun, raised_in, runs, ox>>

SpecTemplate == InitTemplate /\ [][ApplyTemplate]_vars

(***************************************************************************)
(* Reading the log of the current invocation.                              *)
(***************************************************************************)
LogHas(subtype) == \E i \in 1..Len(log) : log[i].subtype = subtype
LogCount(subtype) == Cardinality({i \in 1..Len(log) : log[i].subtype = subtype})
Wrote == LogHas("write_text")

\* The entries the Writer stage (lines 396-459) adds to the log.
WriterSubtypes ==
    {"content_diff", "updated_written", "not_overwriting", "unchanged", "written",
     "mkdir", "write_text"}
IsWriterEntry(e) == e.subtype \in WriterSubtypes
WriterLog == SelectSeq(log, IsWriterEntry)

NoSources == config.needscfg_merge_toml_files = <<>>

(***************************************************************************)
(* C1.  Running the pipeline twice in sequence on the same raw namespace   *)
(* and options, with no merge sources, renders the same text both times;   *)
(* the second run, finding the first run's text in the target, writes      *)
(* nothing and emits no content_diff warning.                              *)
(***************************************************************************)
C1_Idempotent ==
    (pc = "done" /\ rerun /\ NoSources /\ existed = prev_content)
        => /\ new_content = prev_content
           /\ ~Wrote
           /\ ~LogHas("content_diff")

(***************************************************************************)
(* C3.  With overwrite disabled an existing target is never modified: when *)
(* an invocation ends, the file holds what it held when the invocation     *)
(* started, nothing was written, and when the rendered text differs the    *)
(* last event is the "changed but not overwriting" info.                   *)
(***************************************************************************)
C3_NoOverwriteKeepsFile ==
    (pc \in {"done", "raised"} /\ ~config.needscfg_overwrite /\ existed # Absent)
        => /\ file = existed
           /\ ~Wrote
           /\ (pc = "done" /\ new_content # existed)
                  => log[Len(log)] = Info("not_overwriting", <<>>)

\* An earlier invocation wrote the target; this one renders another text.
C3_Witness ==
    /\ pc = "done" /\ runs = 2 /\ ~config.needscfg_overwrite
    /\ existed \notin {Absent, ForeignText}
    /\ new_content # existed
    /\ file = existed

(***************************************************************************)
(* C4.  With overwrite enabled, after every invocation that completes the  *)
(* target holds the text that invocation rendered; a write happened        *)
(* exactly when the target was absent or held another text.                *)
(***************************************************************************)
C4_OverwriteLeavesRendered ==
    (pc = "done" /\ config.needscfg_overwrite)
        => /\ file = new_content
           /\ Wrote <=> (existed = Absent \/ existed # new_content)

C4_Witness ==
    /\ pc = "done" /\ config.needscfg_overwrite
    /\ existed # Absent /\ existed # new_content
    /\ Wrote /\ file = new_content

(***************************************************************************)
(* C5.  When the target exists and equals the rendered text (header        *)
(* included), the invocation writes nothing, the Writer emits no warning   *)
(* (no content_diff), and the Writer's only event is the "unchanged" info, *)
(* whatever the flags.  Warnings of the earlier stages are still emitted.  *)
(***************************************************************************)
C5_UnchangedIsSilent ==
    (pc = "done" /\ existed # Absent /\ existed = new_content)
        => /\ file = existed
           /\ ~Wrote
           /\ ~LogHas("content_diff")
           /\ WriterLog = <<Info("unchanged", <<>>)>>

C5_Witness ==
    /\ pc = "done" /\ existed = new_content
    /\ config.needscfg_warn_on_diff /\ config.needscfg_overwrite
    /\ config.needscfg_add_header
    /\ WriterLog = <<Info("unchanged", <<>>)>>

\* C5 as stated: such an invocation emits no warning event at all.
C5_NoWarningAtAll ==
    (pc = "done" /\ existed # Absent /\ existed = new_content)
        => /\ ~Wrote
           /\ \A i \in 1..Len(log) : log[i].level # "warning"
           /\ WriterLog = <<Info("unchanged", <<>>)>>

(***************************************************************************)
(* C6.  When the target does not exist, the invocation creates the missing *)
(* parent directories and writes the rendered text, whatever the flags,    *)
(* and emits no content_diff warning; it can only fail to complete on a    *)
(* file system that refuses the operations.                                *)
(***************************************************************************)
C6_AbsentIsWritten ==
    /\ (pc = "done" /\ existed = Absent)
           => /\ file = new_content
              /\ Ancestors \subseteq dirs
              /\ Wrote
              /\ ~LogHas("content_diff")
    /\ (pc = "raised" /\ raised_in = "Writer" /\ existed = Absent) => ~writable

C6_Witness ==
    /\ pc = "done" /\ existed = Absent
    /\ existed_dirs = {<<"/">>}
    /\ ~config.needscfg_overwrite /\ config.needscfg_warn_on_diff
    /\ file = new_content /\ Ancestors \subseteq dirs

(***************************************************************************)
(* C7.  An invocation emits a content_diff warning iff the target existed  *)
(* at the Writer stage, differed from the rendered text and warn_on_diff   *)
(* is set, whatever the overwrite flag; there is at most one, it carries   *)
(* the old and the new text, and it precedes the overwrite.                *)
(***************************************************************************)
C7_WarnIffDiffers ==
    pc \in {"done", "raised"}
        => /\ LogCount("content_diff")
                  = IF /\ new_content # NoText
                       /\ existed # Absent
                       /\ existed # new_content
                       /\ config.needscfg_warn_on_diff
                    THEN 1 ELSE 0
           /\ \A i \in 1..Len(log) :
                  log[i].subtype = "content_diff"
                      => /\ log[i].existing = existed
                         /\ log[i].new = new_content
                         /\ \A j \in 1..Len(log) :
                                log[j].subtype = "write_text" => i < j

C7_Witness ==
    /\ pc = "done"
    /\ config.needscfg_warn_on_diff /\ config.needscfg_overwrite
    /\ LogHas("content_diff") /\ Wrote
    /\ file = new_content

(***************************************************************************)
(* C10.  No stage before the final write aborts the pipeline: an           *)
(* invocation that ends with an exception ends in the Writer's write.      *)
(***************************************************************************)
C10_OnlyFinalWriteAborts == pc = "raised" => raised_in = "Writer"

(***************************************************************************)
(* C8.  Merge precedence.  For every key of the needs table the value is   *)
(* the one of the last successfully read source whose needs table defines  *)
(* the key, or the collected value when no source defines it; the keys are *)
(* those of the collected mapping and of the sources' needs tables; a      *)
(* value is replaced whole.  The output's needs table holds these values,  *)
(* each in the Orderer's order.                                            *)
(***************************************************************************)
Sources == config.needscfg_merge_toml_files

NeedsTable(src) ==
    IF DictHas(src.data, "needs") /\ IsDict(DictGet(src.data, "needs"))
    THEN DictGet(src.data, "needs").dict ELSE <<>>

ReadSources == {i \in 1..Len(Sources) : Sources[i].state = "ok"}

Defining(k) == {i \in ReadSources : DictHas(NeedsTable(Sources[i]), k)}

Collected ==
    CollectFrom(config.vars, config,
                [rules |-> config.needscfg_relative_path_fields, outpath |-> OutPath,
                 is_file |-> existed # Absent], <<>>, <<>>).v

Last(S) == CHOOSE i \in S : \A j \in S : j <= i

ExpectedValue(k) ==
    IF Defining(k) = {} THEN DictGet(Collected, k)
    ELSE DictGet(NeedsTable(Sources[Last(Defining(k))]), k)

C8_LastSourceWins ==
    pc \in {"write", "done"}
        => /\ Keys(need_attributes)
                  = Keys(Collected)
                        \cup UNION {Keys(NeedsTable(Sources[i])) : i \in ReadSources}
           /\ \A k \in Keys(need_attributes) :
                  DictGet(need_attributes, k) = ExpectedValue(k)
           /\ LET needs == DictGet(final_toml_data, "needs").dict
              IN  /\ Keys(needs) = Keys(need_attributes)
                  /\ \A k \in Keys(needs) :
                         DictGet(needs, k)
                             = sort_for_reproducibility(ExpectedValue(k), <<k>>)

\* Both sources and the configuration define id_length; SrcA is read last.
C8_Witness ==
    /\ pc = "done"
    /\ Sources = <<SrcB, SrcA>>
    /\ Defining("id_length") = {1, 2}
    /\ "id_length" \in Keys(Collected)
    /\ DictGet(DictGet(final_toml_data, "needs").dict, "id_length") = IntV(3)
    /\ DictGet(DictGet(final_toml_data, "needs").dict, "title") = Word("z")

(***************************************************************************)
(* C9.  A merge source that is missing, unreadable or undecodable yields   *)
(* exactly one merge_failed warning and no "merged" info, leaves           *)
(* need_attributes and additional_root_data as they were, and the loop     *)
(* goes on with the next source: when the Writer is reached every source   *)
(* has been attempted.                                                     *)
(***************************************************************************)
FailedSources == {i \in 1..Len(Sources) : Sources[i].state # "ok"}

C9_FailedSourceStep ==
    (pc = "merge" /\ idx <= Len(Sources) /\ idx \in FailedSources)
        => /\ need_attributes' = need_attributes
           /\ additional_root_data' = additional_root_data
           /\ log' = Append(log, Warning("merge_failed", <<Sources[idx].name>>))
           /\ pc' = "merge" /\ idx' = idx + 1
           /\ raised_in' = "none"

C9_Attempted ==
    /\ pc = "merge" =>
           /\ LogCount("merge_failed") = Cardinality({i \in FailedSources : i < idx})
           /\ LogCount("merge") = Cardinality({i \in ReadSources : i < idx})
    /\ pc \in {"write", "done"} =>
           /\ LogCount("merge_failed") = Cardinality(FailedSources)
           /\ LogCount("merge") = Cardinality(ReadSources)
    /\ raised_in = "Merger" => (idx - 1) \in ReadSources

C2_PermutationInvariant == applied => ox = oy

(***************************************************************************)
(* C11.  Collector inclusion.  After the Collector and before merging, a   *)
(* bare name N is a key of the collected mapping iff needs_N is a key of   *)
(* the namespace that is not in the exclusion set, has a non-null          *)
(* sanitized value, satisfies the inclusion predicate (write-all, or set   *)
(* in the raw source) and -- when exclude_defaults is set -- is not a      *)
(* registered option holding its default value.  Keys without the needs_   *)
(* prefix are never collected.                                             *)
(***************************************************************************)
AfterCollector == pc = "merge" /\ idx = 1

SanitizedOf(e) == get_safe_config(e.value, <<"needs", ".", e.attr[2]>>, Cx).v

\* (a), (b) and (c) of the inclusion rule, for the namespace entry e.
Includable(e) ==
    /\ Len(e.attr) = 2 /\ e.attr[1] = "needs_"
    /\ e.attr \notin config.needscfg_exclude_vars
    /\ SanitizedOf(e) # None
    /\ (config.needscfg_write_all \/ e.attr \in config.raw_config)

HoldsDefault(e) ==
    config.needscfg_exclude_defaults /\ e.registered /\ PyEq(e.value, e.default)

C11_InclusionRule ==
    AfterCollector
        => Keys(need_attributes)
               = {config.vars[i].attr[2] :
                     i \in {j \in 1..Len(config.vars) :
                               Includable(config.vars[j]) /\ ~HoldsDefault(config.vars[j])}}

\* C11 as stated: (a), (b) and (c) alone decide, whatever exclude_defaults is.
C11_WithoutDefaultsToggle ==
    AfterCollector
        => Keys(need_attributes)
               = {config.vars[i].attr[2] :
                     i \in {j \in 1..Len(config.vars) : Includable(config.vars[j])}}

\* exclude_defaults drops id_length (5, its default) and keeps build_json.
C11_Witness ==
    /\ AfterCollector
    /\ config.needscfg_exclude_defaults /\ ~config.needscfg_write_all
    /\ Needs("id_length") \in config.raw_config
    /\ Keys(need_attributes) = {"build_json"}
    /\ \E i \in 1..Len(config.vars) : config.vars[i].attr = Needs("id_length")

(***************************************************************************)
(* C12.  No name of the exclusion set is a key of the collected mapping,   *)
(* in either collection mode; it is a key of the output's needs table      *)
(* only when a merge source that was read defines it in its needs table.   *)
(***************************************************************************)
ExcludedNames == {a[2] : a \in {b \in config.needscfg_exclude_vars : Len(b) = 2}}

C12_ExcludedOnlyFromMerge ==
    /\ AfterCollector => Keys(need_attributes) \cap ExcludedNames = {}
    /\ pc \in {"write", "done"}
           => \A k \in Keys(DictGet(final_toml_data, "needs").dict) \cap ExcludedNames :
                  Defining(k) # {}

\* C12 as stated: no excluded name in the output's needs table, merge or not.
C12_NeverInOutput ==
    pc \in {"write", "done"}
        => Keys(DictGet(final_toml_data, "needs").dict) \cap ExcludedNames = {}

\* Write-all mode, needs_build_json excluded and set, no merge source.
C12_Witness ==
    /\ pc = "done"
    /\ config.needscfg_write_all
    /\ Needs("build_json") \in config.needscfg_exclude_vars
    /\ config.needscfg_merge_toml_files = <<>>
    /\ \E i \in 1..Len(config.vars) :
           config.vars[i].attr = Needs("build_json") /\ config.vars[i].value = Bool(TRUE)
    /\ "id_length" \in Keys(DictGet(final_toml_data, "needs").dict)
    /\ "build_json" \notin Keys(DictGet(final_toml_data, "needs").dict)

(***************************************************************************)
(* C13.  Sanitizing a mapping with one null entry and one entry of an      *)
(* unrecognized object type yields a mapping with neither key, all other   *)
(* entries kept, and exactly one warning event: the unsupported_type       *)
(* warning of the object entry.  The null entry is dropped without event.  *)
(***************************************************************************)
\* ox.obj is a mapping of supported leaves but for one null and one object.
OneNullOneObject ==
    /\ IsDict(ox.obj)
    /\ \A i \in 1..Len(ox.obj.dict) : ox.obj.dict[i][2] \in SanitizeLeaves
    /\ Cardinality({i \in 1..Len(ox.obj.dict) : IsNone(ox.obj.dict[i][2])}) = 1
    /\ Cardinality({i \in 1..Len(ox.obj.dict) : IsObj(ox.obj.dict[i][2])}) = 1

Warnings(ev) == {i \in 1..Len(ev) : ev[i].level = "warning"}

C13_DropsNullAndObject ==
    (applied /\ OneNullOneObject)
        => /\ IsDict(oy.v)
           /\ Keys(oy.v.dict)
                  = {ox.obj.dict[i][1] :
                        i \in {j \in 1..Len(ox.obj.dict) :
                                  ~IsNone(ox.obj.dict[j][2]) /\ ~IsObj(ox.obj.dict[j][2])}}

RECURSIVE IsSafe(_)
IsSafe(v) ==
    IF IsDict(v) THEN \A i \in 1..Len(v.dict) : IsSafe(v.dict[i][2])
    ELSE IF IsList(v) THEN \A i \in 1..Len(v.list) : IsSafe(v.list[i])
    ELSE IF IsTuple(v) THEN \A i \in 1..Len(v.tuple) : IsSafe(v.tuple[i])
    ELSE IF IsSet(v) THEN \A e \in v.set : IsSafe(e)
    ELSE IsStr(v) \/ IsInt(v) \/ IsBool(v)

\* v without its null and unsupported elements, every text and path leaf
\* replaced by the same text.
RECURSIVE Strip(_)
RECURSIVE StripSeq(_)
StripSeq(vs) ==
    IF vs = <<>> THEN <<>>
    ELSE (IF IsNone(Head(vs)) \/ IsObj(Head(vs)) THEN <<>> ELSE <<Strip(Head(vs))>>)
             \o StripSeq(Tail(vs))

RECURSIVE StripItems(_)
StripItems(items) ==
    IF items = <<>> THEN <<>>
    ELSE (IF IsNone(Head(items)[2]) \/ IsObj(Head(items)[2]) THEN <<>>
          ELSE <<(<<Head(items)[1], Strip(Head(items)[2])>>)>>)
             \o StripItems(Tail(items))

Strip(v) ==
    IF IsDict(v) THEN Dict(StripItems(v.dict))
    ELSE IF IsList(v) THEN List(StripSeq(v.list))
    ELSE IF IsTuple(v) THEN Tuple(StripSeq(v.tuple))
    ELSE IF IsSet(v) THEN SetOf({Strip(e) : e \in {x \in v.set : ~IsNone(x) /\ ~IsObj(x)}})
    ELSE IF IsStr(v) \/ IsPath(v) THEN Word("a")
    ELSE v

C14_SafeValue ==
    (applied /\ ~IsNone(oy.v))
        => /\ IsSafe(oy.v)
           /\ Strip(oy.v) = Strip(ox.obj)

\* A list whose mapping element loses its null and its object, not its text.
C14_Witness ==
    /\ applied
    /\ ox.obj = List(<<IntV(1), Dict(<< <<"a", None>>, <<"b", Word("a")>>,
                                        <<"json_path", Obj("function")>> >>)>>)
    /\ oy.v = List(<<IntV(1), Dict(<< <<"b", Word("a")>> >>)>>)

(***************************************************************************)
(* C15.  In the document handed to the codec every mapping has its keys in *)
(* ascending order: the root, the needs table and the mappings nested in   *)
(* it, and every additional root table with the mappings nested in it.     *)
(***************************************************************************)
RECURSIVE KeysSorted(_)
KeysSorted(v) ==
    IF IsDict(v)
    THEN /\ \A i \in 1..(Len(v.dict) - 1) : KeyLess(v.dict[i][1], v.dict[i + 1][1])
         /\ \A i \in 1..Len(v.dict) : KeysSorted(v.dict[i][2])
    ELSE IF IsList(v) THEN \A i \in 1..Len(v.list) : KeysSorted(v.list[i])
    ELSE IF IsTuple(v) THEN \A i \in 1..Len(v.tuple) : KeysSorted(v.tuple[i])
    ELSE TRUE

C15_AllMappingsSorted ==
    pc \in {"write", "done"} => KeysSorted(Dict(final_toml_data))

\* What does hold: the root, the needs table at every depth, and the first
\* level of every additional root table.
C15_SortedButNestedAdditional ==
    pc \in {"write", "done"}
        => /\ \A i \in 1..(Len(final_toml_data) - 1) :
                  KeyLess(final_toml_data[i][1], final_toml_data[i + 1][1])
           /\ KeysSorted(DictGet(final_toml_data, "needs"))
           /\ \A i \in 1..Len(final_toml_data) :
                  LET t == final_toml_data[i][2]
                  IN  IsDict(t) => \A j \in 1..(Len(t.dict) - 1) :
                                       KeyLess(t.dict[j][1], t.dict[j + 1][1])

(***************************************************************************)
(* C16.  The Orderer is idempotent: ordering an ordered value changes      *)
(* nothing.                                                                *)
(***************************************************************************)
C16_Idempotent == Len(oy) = 2 => oy[2] = oy[1]

(***************************************************************************)
(* C20.  Sort-by-key rule.  For a list at a top-level field sorted by key  *)
(* K: if every element is a mapping containing K (the values of K          *)
(* comparable), the result holds the same elements in ascending order of   *)
(* K, elements with equal K in input order; otherwise the element order is *)
(* unchanged.  Either way the result is a permutation of the input         *)
(* elements, each recursively ordered.                                     *)
(***************************************************************************)
KeyRuled(f) == f \in DOMAIN list_sort_rules /\ list_sort_rules[f] # NoKey

\* The field of ox that holds the collection, and what it holds.
InputField == IF ox.dict[1][1] = "id_length" THEN ox.dict[2][1] ELSE ox.dict[1][1]
InputValue == DictGet(ox.dict, InputField)

\* ys is xs rearranged by pi, each element ordered at the path of the list.
ArrangedBy(pi, xs, ys) ==
    /\ \A i, j \in 1..Len(xs) : pi[i] = pi[j] => i = j
    /\ \A i \in 1..Len(xs) :
           ys[i] = sort_for_reproducibility(xs[pi[i]], <<InputField, "[]">>)

C20_RaisesOnlyIncomparable ==
    (Len(oy) >= 1 /\ KeyRuled(InputField) /\ IsList(InputValue) /\ IsRaised(oy[1]))
        => LET K == list_sort_rules[InputField]
               xs == InputValue.list
           IN  /\ \A i \in 1..Len(xs) : IsDict(xs[i]) /\ DictHas(xs[i].dict, K)
               /\ \E i, j \in 1..Len(xs) :
                      Cmp(DictGet(xs[i].dict, K), DictGet(xs[j].dict, K)) = "err"

OutputDir == parent(ox.base_path)

Target == resolve(as_posix(ox.absolute_path))

RelativeToOutputDir ==
    LET common == CommonParts(Target, OutputDir)
    IN  /\ oy = as_posix(Dots(Len(OutputDir) - Len(common))
                             \o SubSeq(Target, Len(common) + 1, Len(Target)))
        /\ IF oy = <<".">> THEN Target = OutputDir
           ELSE resolve(as_posix(OutputDir) \o <<"/">> \o oy) = Target

C17_RelativeToOutputDir == applied => RelativeToOutputDir

\* What holds: the same, once the output file exists.
C17_WhenOutputExists == (applied /\ ox.is_file) => RelativeToOutputDir

(***************************************************************************)
(* C18.  Every path-like value reaching the Sanitizer becomes text and     *)
(* produces exactly one conversion event: a path_relativization info and   *)
(* the relative text iff a rule matches its config path and the value is   *)
(* absolute; otherwise a path_conversion warning and the plain text.  A    *)
(* path at a field no rule matches is never relativized.                   *)
(***************************************************************************)
RuleMatches(at) ==
    \E i \in 1..Len(ox.cx.rules) : matches_path_pattern(at, ox.cx.rules[i].field)

\* The path-like values of the tree v, each with its config path.
RECURSIVE PathLeaves(_, _)
PathLeaves(v, at) ==
    LET elems == IF IsList(v) THEN v.list ELSE IF IsTuple(v) THEN v.tuple
                 ELSE IF IsSet(v) THEN SetToSeq(v.set) ELSE <<>>
    IN  IF IsPath(v) THEN {[at |-> at, toks |-> v.path]}
        ELSE IF IsDict(v)
        THEN UNION {PathLeaves(v.dict[i][2], at \o <<".", v.dict[i][1]>>) :
                       i \in 1..Len(v.dict)}
        ELSE UNION {PathLeaves(elems[i], at \o <<"[", ToString(i - 1), "]">>) :
                       i \in 1..Len(elems)}

\* The tree v with each path-like value replaced by its text: relative where
\* a rule matches the config path of an absolute path, plain elsewhere.
RECURSIVE PathsAsText(_, _)
PathsAsText(v, at) ==
    LET each(elems) == [i \in 1..Len(elems) |->
                           PathsAsText(elems[i], at \o <<"[", ToString(i - 1), "]">>)]
    IN  IF IsPath(v)
        THEN IF RuleMatches(at) /\ is_absolute(v.path)
             THEN Str(relativize_path(PartsOf(v.path), ox.cx.outpath, ox.cx.is_file))
             ELSE Str(v.path)
        ELSE IF IsDict(v)
        THEN Dict([i \in 1..Len(v.dict) |->
                      <<v.dict[i][1], PathsAsText(v.dict[i][2], at \o <<".", v.dict[i][1]>>)>>])
        ELSE IF IsList(v) THEN List(each(v.list))
        ELSE IF IsTuple(v) THEN Tuple(each(v.tuple))
        ELSE IF IsSet(v) THEN SetOf(Range(each(SetToSeq(v.set))))
        ELSE v

ConversionEvents(at) ==
    {i \in 1..Len(oy.ev) :
        /\ oy.ev[i].at = at
        /\ oy.ev[i].subtype \in {"path_relativization", "path_conversion"}}

C18_PathConversion ==
    applied
        => /\ \A leaf \in PathLeaves(ox.obj, ox.path) :
                  /\ Cardinality(ConversionEvents(leaf.at)) = 1
                  /\ \A i \in ConversionEvents(leaf.at) :
                         oy.ev[i] = IF RuleMatches(leaf.at) /\ is_absolute(leaf.toks)
                                    THEN Info("path_relativization", leaf.at)
                                    ELSE Warning("path_conversion", leaf.at)
           /\ oy.v = get_safe_config(PathsAsText(ox.obj, ox.path), ox.path, ox.cx).v

\* Two absolute paths in one mapping of a list: the one a rule matches is
\* relativized, the other is written as it is, with a warning.
C18_Witness ==
    /\ applied
    /\ ox.cx.is_file
    /\ ox.obj = List(<<Dict(<< <<"a", PathObj(SiblingFile)>>, <<"b", IntV(1)>>,
                               <<"json_path", PathObj(SiblingFile)>> >>)>>)
    /\ oy.v = List(<<Dict(<< <<"a", Str(SiblingFile)>>, <<"b", IntV(1)>>,
                             <<"json_path", Str(<<"..", "/", "sib", "/", "f">>)>> >>)>>)
    /\ Cardinality({i \in 1..Len(oy.ev) : oy.ev[i].subtype = "path_conversion"}) = 1
    /\ Cardinality({i \in 1..Len(oy.ev) : oy.ev[i].subtype = "path_relativization"}) = 1

(***************************************************************************)
(* C19.  Pattern matching is anchored.  The result is true iff the whole   *)
(* path, a leading "needs." rewritten to "needs_", is the pattern with     *)
(* each "[*]" standing for one index segment of decimal digits and every   *)
(* other part literal.  A pattern that is a prefix or a part of the path   *)
(* does not match; "[*]" matches no missing and no non-numeric index.      *)
(***************************************************************************)
\* Every text the pattern stands for.
RECURSIVE Instances(_)
Instances(pattern) ==
    IF pattern = <<>> THEN {<<>>}
    ELSE IF Head(pattern) = "[*]"
    THEN {<<"[", d, "]">> \o rest : d \in DigitToks, rest \in Instances(Tail(pattern))}
    ELSE {<<Head(pattern)>> \o rest : rest \in Instances(Tail(pattern))}

Rewritten ==
    IF IsPrefix(<<"needs", ".">>, ox.config_path)
    THEN <<"needs_">> \o SubSeq(ox.config_path, 3, Len(ox.config_path))
    ELSE ox.config_path

C19_WitnessNoMatch ==
    /\ applied
    /\ ox.config_path = <<"needs", ".", "types", "[", "a", "]">>
    /\ ox.pattern = <<"needs_", "types", "[*]">>
    /\ oy = FALSE

(***************************************************************************)
(* C21.  Sort-as-scalars rule.  A list at flow_link_types,                 *)
(* json_exclude_fields or variant_options comes out sorted ascending by    *)
(* (type name, value), elements with the same pair in input order; when    *)
(* two elements of one type cannot be compared the list comes out in input *)
(* order.  The sort itself never raises, and every element is recursively  *)
(* ordered.                                                                *)
(***************************************************************************)
ScalarRuled(f) == f \in DOMAIN list_sort_rules /\ list_sort_rules[f] = NoKey

\* Two elements of one type, different, that < cannot order.
SortWouldRaise(xs) ==
    \E i, j \in 1..Len(xs) :
        /\ TypeName(xs[i]) = TypeName(xs[j])
        /\ xs[i] # xs[j]
        /\ Cmp(xs[i], xs[j]) = "err"

C21_SortAsScalars ==
    (Len(oy) >= 1 /\ ScalarRuled(InputField) /\ IsList(InputValue))
        => LET xs == InputValue.list
               n == Len(xs)
               zs == [i \in 1..n |-> sort_for_reproducibility(xs[i], <<InputField, "[]">>)]
           IN  /\ ~IsRaised(oy[1])
               /\ LET ys == DictGet(oy[1].dict, InputField).list
                  IN  /\ Len(ys) = n
                      /\ IF SortWouldRaise(zs)
                         THEN ys = zs
                         ELSE \E pi \in [1..n -> 1..n] :
                                  /\ ArrangedBy(pi, xs, ys)
                                  /\ \A i, j \in 1..n :
                                         i < j =>
                                             IF TypeName(ys[i]) # TypeName(ys[j])
                                             THEN KeyLess(TypeName(ys[i]), TypeName(ys[j]))
                                             ELSE \/ Cmp(ys[i], ys[j]) = "lt"
                                                  \/ (ys[i] = ys[j] /\ pi[i] < pi[j])

\* flow_link_types ["b", 1] comes out as [1, "b"]: "int" sorts before "str".
C21_Witness ==
    /\ Len(oy) >= 1
    /\ ox = Dict(<< <<"flow_link_types", List(<<Word("b"), IntV(1)>>)>>,
                    <<"id_length", IntV(1)>> >>)
    /\ oy[1] = Dict(<< <<"flow_link_types", List(<<IntV(1), Word("b")>>)>>,
                       <<"id_length", IntV(1)>> >>)

\* Two different tables cannot be compared: the list keeps its order.
C21_WitnessFallback ==
    /\ Len(oy) >= 1
    /\ InputField = "variant_options"
    /\ IsList(InputValue)
    /\ Len(InputValue.list) = 2
    /\ SortWouldRaise(InputValue.list)
    /\ ~IsRaised(oy[1])
    /\ KeyLess(InputValue.list[2].dict[1][1], InputValue.list[1].dict[1][1])

C22_WitnessByName ==
    /\ Len(oy) >= 1
    /\ InputField = "extra_options"
    /\ IsList(InputValue)
    /\ Len(InputValue.list) = 2
    /\ \A i \in 1..2 : IsDict(InputValue.list[i]) /\ DictHas(InputValue.list[i].dict, "name")
    /\ ~IsRaised(oy[1])
    /\ DictGet(InputValue.list[1].dict, "name") = Word("b")
    /\ DictGet(DictGet(oy[1].dict, "extra_options").list[1].dict, "name") = Word("a")

C22_WitnessMixed ==
    /\ Len(oy) >= 1
    /\ ox = Dict(<< <<"extra_options",
                      List(<<Word("b"), Dict(<< <<"name", Word("a")>>,
                                                <<"description", Word("x")>> >>)>>)>>,
                    <<"id_length", IntV(1)>> >>)
    /\ DictGet(oy[1].dict, "extra_options").list[1] = Word("b")

(***************************************************************************)
(* C23.  A list at a path with no sort rule keeps its input order, every   *)
(* element recursively ordered, and its length: a list at a top-level      *)
(* field outside the rule table, and a list nested below a top-level       *)
(* field -- in a table under the key "types", in a list, or in a tuple.    *)
(***************************************************************************)
\* ys holds the elements of xs in input order, each ordered at path.
KeepsOrder(xs, ys, path) ==
    /\ Len(ys) = Len(xs)
    /\ \A i \in 1..Len(xs) : ys[i] = sort_for_reproducibility(xs[i], path)

OutputValue == DictGet(oy[1].dict, InputField)

\* The list at a field without a rule.
C23_UnruledFieldKeepsOrder ==
    (Len(oy) >= 1 /\ ~IsRaised(oy[1]) /\ InputField \notin SortableFields
                  /\ IsList(InputValue))
        => /\ IsList(OutputValue)
           /\ KeepsOrder(InputValue.list, OutputValue.list, <<InputField, "[]">>)

\* The list under the key "types" of a table, and the list inside a list.
C23_NestedInTableOrList ==
    (Len(oy) >= 1 /\ ~IsRaised(oy[1]))
        => /\ (IsDict(InputValue) /\ DictHas(InputValue.dict, "types"))
                  => KeepsOrder(DictGet(InputValue.dict, "types").list,
                                DictGet(OutputValue.dict, "types").list,
                                <<InputField, ".", "types", "[]">>)
           /\ (IsList(InputValue) /\ Len(InputValue.list) = 1
                                  /\ IsList(InputValue.list[1]))
                  => KeepsOrder(InputValue.list[1].list, OutputValue.list[1].list,
                                <<InputField, "[]", "[]">>)

\* The list inside a tuple: the elements in input order, whatever path they
\* were ordered at.
NestedInTupleKeepsOrder ==
    (IsTuple(InputValue) /\ Len(InputValue.tuple) = 1 /\ IsList(InputValue.tuple[1]))
        => LET xs == InputValue.tuple[1].list
               ys == OutputValue.tuple[1].list
           IN  /\ Len(ys) = Len(xs)
               /\ \A i \in 1..Len(xs) :
                      \E path \in {<<InputField, "[]">>, <<InputField, "[]", "[]">>} :
                          ys[i] = sort_for_reproducibility(xs[i], path)

C23_NoRuleKeepsOrder ==
    (Len(oy) >= 1 /\ ~IsRaised(oy[1]))
        => /\ C23_UnruledFieldKeepsOrder
           /\ C23_NestedInTableOrList
           /\ NestedInTupleKeepsOrder

\* types = {"types": [b, a]} keeps [b, a] under the nested key.
C23_Witness ==
    /\ Len(oy) >= 1
    /\ InputField = "types"
    /\ IsDict(InputValue)
    /\ Len(DictGet(InputValue.dict, "types").list) = 2
    /\ DictGet(InputValue.dict, "types").list[1] =
           Dict(<< <<"title", Word("b")>>, <<"description", Word("x")>> >>)
    /\ DictGet(InputValue.dict, "types").list[2] =
           Dict(<< <<"title", Word("a")>>, <<"description", Word("x")>> >>)
    /\ DictGet(OutputValue.dict, "types").list[1] =
           Dict(<< <<"description", Word("x")>>, <<"title", Word("b")>> >>)

(***************************************************************************)
(* C24.  Additional root tables.  A top-level key other than "needs" takes *)
(* the value of the last successfully read source that defines it,         *)
(* replaced whole; "needs" never enters additional_root_data; the keys are *)
(* those of the read sources; and the output root always holds a "needs"   *)
(* table, even when nothing was collected and nothing merged.              *)
(***************************************************************************)
DefiningRoot(k) == {i \in ReadSources : DictHas(Sources[i].data, k)}

LastRootValue(k) == DictGet(Sources[Last(DefiningRoot(k))].data, k)

C24_AdditionalRootTables ==
    pc \in {"write", "done"}
        => /\ ~DictHas(additional_root_data, "needs")
           /\ Keys(additional_root_data)
                  = UNION {Keys(Sources[i].data) \ {"needs"} : i \in ReadSources}
           /\ \A k \in Keys(additional_root_data) :
                  /\ DictGet(additional_root_data, k) = LastRootValue(k)
                  /\ DictGet(final_toml_data, k)
                         = IF IsDict(LastRootValue(k))
                           THEN Dict(SortItems(LastRootValue(k).dict))
                           ELSE LastRootValue(k)
           /\ Keys(final_toml_data) = Keys(additional_root_data) \cup {"needs"}
           /\ IsDict(DictGet(final_toml_data, "needs"))

\* SrcA then SrcB both define project: SrcB's table replaces SrcA's whole,
\* description is gone.
C24_Witness ==
    /\ pc = "done"
    /\ Sources = <<SrcA, SrcB>>
    /\ DefiningRoot("project") = {1, 2}
    /\ DictGet(final_toml_data, "project") = Dict(<< <<"name", Word("z")>> >>)

\* Nothing collected, nothing merged: the root holds an empty needs table.
C24_WitnessEmpty ==
    /\ pc = "done"
    /\ Sources = <<>>
    /\ need_attributes = <<>>
    /\ final_toml_data = << <<"needs", Dict(<<>>)>> >>

(***************************************************************************)
(* C25.  Diff preview cap.  The warning shows at most the first 50 lines   *)
(* of the diff: a diff of L > 50 lines is shown as its first 50 lines      *)
(* followed by a suffix that states exactly L - 50 more lines; a diff of   *)
(* L <= 50 lines is shown whole, without suffix.                           *)
(***************************************************************************)
IsLine(x) == DOMAIN x = {"line"}

C25_DiffPreviewCap ==
    applied
        => LET L == Len(ox)
               lines == SelectSeq(oy, IsLine)
           IN  /\ Len(lines) <= 50
               /\ \A i \in 1..Len(lines) : oy[i] = ox[i]
               /\ IF L > 50
                  THEN /\ Len(lines) = 50
                       /\ oy = Append(lines, [more |-> L - 50])
                  ELSE oy = ox

\* A diff of 53 lines: 50 lines shown, then "3 more lines".
C25_Witness ==
    /\ applied
    /\ Len(ox) = 53
    /\ Len(oy) = 51
    /\ oy[50] = [line |-> 50]
    /\ oy[51] = [more |-> 3]

\* A diff of exactly 50 lines is shown whole.
C25_WitnessWhole == applied /\ Len(ox) = 50 /\ oy = ox

(***************************************************************************)
(* C26.  Path template resolution.  Every occurrence of ${outdir} and of   *)
(* ${srcdir} in the template is replaced by the anchor; an absolute result *)
(* is returned as it is, a relative one is joined onto confdir; when the   *)
(* three anchors are absolute the returned path is absolute.  The rule is  *)
(* the same for the output path and for a merge source.                    *)
(***************************************************************************)
\* The text of the template with each anchor written out in place.
Substituted ==
    Concat([i \in 1..Len(ox.path_template) |->
               CASE ox.path_template[i] = "${outdir}" -> ox.outdir
                 [] ox.path_template[i] = "${srcdir}" -> ox.srcdir
                 [] OTHER -> <<ox.path_template[i]>>])

C26_TemplateResolution ==
    applied
        => /\ \A i \in 1..Len(oy) : oy[i] \notin {"${outdir}", "${srcdir}"}
           /\ IF is_absolute(Substituted)
              THEN oy = PathParts(Substituted)
              ELSE oy = PathParts(ox.confdir) \o PathParts(Substituted)
           /\ (is_absolute(ox.outdir) /\ is_absolute(ox.srcdir) /\ is_absolute(ox.confdir))
                  => IsAbsoluteParts(oy)

\* "f/${outdir}" with a relative outdir is joined onto confdir: /c/f/out.
C26_Witness ==
    /\ applied
    /\ ox.path_template = <<"f", "/", "${outdir}">>
    /\ ox.outdir = <<"out">>
    /\ ox.confdir = <<"/", "c">>
    /\ oy = <<"/", "c", "f", "out">>

\* "${outdir}/${outdir}": both occurrences replaced, the result absolute.
C26_WitnessTwice ==
    /\ applied
    /\ ox.path_template = <<"${outdir}", "/", "${outdir}">>
    /\ ox.outdir = <<"/", "p", "/", "out">>
    /\ ox.site = "needscfg_merge_toml_files"
    /\ oy = <<"/", "p", "out", "p", "out">>

(***************************************************************************)
(* C27.  String relativization preserves the wrapping.  For a text at a    *)
(* path whose rule has prefix P and suffix S: the rewritten text begins    *)
(* with P exactly when the input began with P, ends with S exactly when    *)
(* the input ended with S, and holds the relativized path in between; a    *)
(* text whose stripped content is not an absolute path is returned         *)
(* unchanged and no path_relativization event is emitted.                  *)
(***************************************************************************)
\* The rule that matches the path of the call: its prefix and suffix.
MatchedRule == ScanRules(ox.cx.rules, ox.path)

BeganWithPrefix == MatchedRule.prefix # <<>> /\ IsPrefix(MatchedRule.prefix, ox.obj.str)

\* The text after the prefix, if it began with it.
AfterPrefix ==
    IF BeganWithPrefix
    THEN SubSeq(ox.obj.str, Len(MatchedRule.prefix) + 1, Len(ox.obj.str))
    ELSE ox.obj.str

EndedWithSuffix == MatchedRule.suffix # <<>> /\ IsSuffix(MatchedRule.suffix, AfterPrefix)

Stripped ==
    IF EndedWithSuffix
    THEN SubSeq(AfterPrefix, 1, Len(AfterPrefix) - Len(MatchedRule.suffix))
    ELSE AfterPrefix

RelativizationEvents == {i \in 1..Len(oy.ev) : oy.ev[i].subtype = "path_relativization"}

\* A text that is not an absolute path once stripped stays as it is.
C27_UnchangedWhenNotAbsolute ==
    (applied /\ IsStr(ox.obj) /\ ~(MatchedRule.match /\ is_absolute(Stripped)))
        => oy.v = ox.obj /\ RelativizationEvents = {}

C27_PreservesWrapping ==
    (applied /\ IsStr(ox.obj))
        => IF MatchedRule.match /\ is_absolute(Stripped)
           THEN /\ oy.v = Str((IF BeganWithPrefix THEN MatchedRule.prefix ELSE <<>>)
                              \o relativize_path(PartsOf(Stripped), ox.cx.outpath,
                                                 ox.cx.is_file)
                              \o (IF EndedWithSuffix THEN MatchedRule.suffix ELSE <<>>))
                /\ Cardinality(RelativizationEvents) = 1
           ELSE oy.v = ox.obj /\ RelativizationEvents = {}

\* What the code does: the configured prefix and suffix are put around the
\* relativized path whether the input had them or not.
C27_AlwaysWraps ==
    (applied /\ IsStr(ox.obj) /\ MatchedRule.match /\ is_absolute(Stripped))
        => /\ oy.v = Str(MatchedRule.prefix
                         \o relativize_path(PartsOf(Stripped), ox.cx.outpath, ox.cx.is_file)
                         \o MatchedRule.suffix)
           /\ Cardinality(RelativizationEvents) = 1

(***************************************************************************)
(* C28.  Symlink tie-break in relativize_path.  A text through a symbolic  *)
(* link is returned only if it is strictly shorter than the standard text; *)
(* when the shortest candidate is as long as the standard text or longer,  *)
(* or when no link in the base directory or in one of at most 10 ancestor  *)
(* levels resolves to the target or to an ancestor of it, the standard     *)
(* text is returned; among several candidates a shortest one is compared.  *)
(***************************************************************************)
StandardText == relativize_path(ox.absolute_path, ox.base_path, ox.is_file)

BaseDir == IF ox.is_file THEN parent(ox.base_path) ELSE ox.base_path

\* The link is an entry of the base directory or of one of the 10 levels above.
InProbedLevels(l) ==
    \E k \in 0..10 : k < Len(BaseDir) /\ l.dir = SubSeq(BaseDir, 1, Len(BaseDir) - k)

LeadsToTarget(l) == IsPrefix(l.target, ox.absolute_path)

CandidateTexts == SymlinkCandidates(ox.absolute_path, BaseDir, ox.links)

C28_SymlinkTieBreak ==
    applied
        => /\ oy # StandardText
                  => /\ TextLen(oy) < TextLen(StandardText)
                     /\ oy \in CandidateTexts
                     /\ \A c \in CandidateTexts : TextLen(oy) <= TextLen(c)
           /\ (\A c \in CandidateTexts : TextLen(c) >= TextLen(StandardText))
                  => oy = StandardText
           /\ (\A l \in ox.links : ~(InProbedLevels(l) /\ LeadsToTarget(l)))
                  => oy = StandardText
           /\ (\E c \in CandidateTexts : TextLen(c) < TextLen(StandardText))
                  => oy # StandardText

\* Two links lead to /p/sib, "l" in the output directory and "longer" one
\* level up: "l/f" is compared and, shorter than "../sib/f", returned.
C28_Witness ==
    /\ applied
    /\ ox.absolute_path = <<"/", "p", "sib", "f">>
    /\ Cardinality(CandidateTexts) = 2
    /\ <<"..", "/", "longer", "/", "f">> \in CandidateTexts
    /\ StandardText = <<"..", "/", "sib", "/", "f">>
    /\ oy = <<"l", "/", "f">>

\* "../lnk/f" is as long as "../sib/f": the standard text is returned.
C28_WitnessTie ==
    /\ applied
    /\ CandidateTexts = {<<"..", "/", "lnk", "/", "f">>}
    /\ TextLen(<<"..", "/", "lnk", "/", "f">>) = TextLen(StandardText)
    /\ oy = <<"..", "/", "sib", "/", "f">>

\* A link ten levels above the base directory is not probed, one nine levels
\* above is.
C28_WitnessDepth ==
    /\ applied
    /\ ox.base_path = DeepDir
    /\ ox.absolute_path = <<"/", "t", "f">>
    /\ ox.links = {Link(SubSeq(DeepDir, 1, 2), "l", <<"/", "t">>)}
    /\ CandidateTexts = {}
    /\ oy = StandardText

(***************************************************************************)
(* C29.  Two invocations with different rendered text and overwrite        *)
(* disabled, interleaved against the same initially absent output path,    *)
(* never replace each other's output.                                      *)
(***************************************************************************)
RaceCase ==
    /\ ~config.needscfg_overwrite
    /\ existed = Absent
    /\ ox[1].new_content # ox[2].new_content

C29_NeverReplaced == RaceCase => oy = {}

\* What holds: with overwrite disabled an invocation that found the file
\* writes nothing, so only an invocation that began while the other was
\* running, and found no file, replaces the other's output; invocations
\* that run one after the other replace nothing.
C29_ReplacedOnlyWhenUnchecked ==
    ~config.needscfg_overwrite
        => /\ \A e \in oy : ~ox[e.by].found /\ ox[e.by].pc \in {"write", "done"}
           /\ \A p \in Invocations :
                  (ox[p].found /\ ox[p].pc = "done") => ~ox[p].wrote
           /\ (RaceCase /\ \A p \in Invocations : ~ox[p].concurrent) => oy = {}
           /\ (RaceCase /\ oy # {}) => \E p \in Invocations : ox[p].concurrent

\* One after the other: 1 writes, 2 finds the file and leaves it.
C29_Witness ==
    /\ RaceCase
    /\ ox[1].pc = "done" /\ ox[2].pc = "done"
    /\ ox[1].wrote /\ ~ox[2].wrote /\ ox[2].found
    /\ ~ox[1].concurrent /\ ~ox[2].concurrent
    /\ file = ox[1].new_content
    /\ LogHas("not_overwriting")

\* Both checked before either wrote: 2's text is on disk over 1's.
C29_WitnessRace ==
    /\ RaceCase
    /\ ox[1].pc = "done" /\ ox[2].pc = "done"
    /\ ox[1].wrote /\ ox[2].wrote
    /\ oy = {[by |-> 2, of |-> 1]}
    /\ file = ox[2].new_content

(***************************************************************************)
(* C30.  Sanitizer events (unsupported_type, path_conversion,              *)
(* path_relativization, path_matching) are emitted only for names that end *)
(* up in the collected mapping: an excluded name causes no event, and in   *)
(* write-explicit-only mode a defaulted name, or a name dropped by         *)
(* exclude_defaults, causes none either.                                   *)
(***************************************************************************)
SanitizerSubtypes ==
    {"unsupported_type", "path_conversion", "path_relativization", "path_matching"}

\* The bare names the Sanitizer's events of the log are about: the event
\* is at needs.<name>...
EventNames ==
    {log[i].at[3] : i \in {j \in 1..Len(log) : log[j].subtype \in SanitizerSubtypes}}

C30_EventsOnlyForCollected ==
    AfterCollector => EventNames \subseteq Keys(need_attributes)

\* An excluded name causes no event.
C30_ExcludedCausesNoEvent ==
    AfterCollector => EventNames \cap ExcludedNames = {}

\* What the code does: every needs_ name outside the exclusion set is
\* sanitized, collected or not, and its events are emitted.
C30_EventsForEverySanitizedName ==
    AfterCollector
        => log = Concat([i \in 1..Len(config.vars) |->
                            LET e == config.vars[i]
                            IN  IF startswith_needs(e.attr)
                                       /\ e.attr \notin config.needscfg_exclude_vars
                                THEN get_safe_config(e.value, <<"needs", ".", e.attr[2]>>, Cx).ev
                                ELSE <<>>])

\* needs_functions is excluded and holds a function: no warning.
C30_WitnessExcluded ==
    /\ AfterCollector
    /\ Needs("functions") \in config.needscfg_exclude_vars
    /\ \E i \in 1..Len(config.vars) : config.vars[i].attr = Needs("functions")
    /\ log = <<>>

\* Explicit-only mode, needs_schema_debug_path not set by the user: its
\* value is sanitized and the path_conversion warning is emitted all the
\* same, though the name is not collected.
C30_WitnessDefaulted ==
    /\ AfterCollector
    /\ ~config.needscfg_write_all
    /\ Needs("schema_debug_path") \notin config.raw_config
    /\ log = <<Warning("path_conversion", <<"needs", ".", "schema_debug_path">>)>>
    /\ "schema_debug_path" \notin Keys(need_attributes)

====
